------------------------------- MODULE Exporter -------------------------------
(***************************************************************************)
(* leilfs-exporter, the sidecar of a master pod: every GET of /metrics     *)
(* runs the saunafs-admin subcommands against the local sfsmaster, all at  *)
(* a time, parses what they print and answers with the series.             *)
(*                                                                         *)
(* Scrapes of several clients overlap; a mutex lets one collect at a time. *)
(* Every subcommand is a process with a deadline of its own that may       *)
(* answer, fail, be killed at the deadline, or print what the parser does  *)
(* not expect.  The master's state goes on changing under them.            *)
(***************************************************************************)
EXTENDS Naturals, Sequences, FiniteSets, Functions

CONSTANTS
  Scrapes,     \* GETs of /metrics
  Commands,    \* the subcommands of a scrape
  Labels,      \* labels of series
  Outputs,     \* what each subcommand may print: sequences of rows
  Timeout,     \* scrape-timeout, of a subcommand
  NotRun,      \* a subcommand that was not started,
  Running,     \* and one that has not ended
  NoScrape,    \* nobody holds the mutex
  NoResponse,  \* the scrape was not answered
  MaxVersion   \* bound on the changes of the master's state

AllCommands ==
  {"info", "list-chunkservers", "list-metadataservers", "metadataserver-status",
   "chunks-health", "list-disks", "list-goals", "list-mounts", "ready-chunkservers-count"}

\* A row: the labels of its series, the tag in its first field, the number of
\* fields, and which of them are not numbers.
RowType == [labels : Labels, tag : STRING, len : Nat, text : SUBSET Nat]

\* What a subcommand ends with; a failure prints nothing.
Versions == 0 .. MaxVersion
Answers  == [err : BOOLEAN, out : {<<>>} \cup UNION {Outputs[c] : c \in Commands}, version : Versions]

ASSUME CommandsAssumption == Commands \subseteq AllCommands
ASSUME OutputsAssumption ==
  DOMAIN Outputs = Commands /\ \A c \in Commands : Outputs[c] \subseteq Seq(RowType)
ASSUME TimeoutAssumption == Timeout \in Nat \ {0}
ASSUME NoScrapeAssumption == NoScrape \notin Scrapes
ASSUME MarkersAssumption ==
  NotRun # Running /\ NotRun \notin Answers /\ Running \notin Answers
ASSUME MaxVersionAssumption == MaxVersion \in Nat

-----------------------------------------------------------------------------
(***************************************************************************)
(* Parsers.  What a row needs: a number of fields, and the fields that     *)
(* must be numbers.  One row that does not fit is an error of the command. *)
(***************************************************************************)
Needs(len, numbers) == [len |-> len, numbers |-> numbers]

ChunksHealthNeeds(row) ==
  CASE row.tag = "AVA"            -> Needs(5, 3 .. 5)
    [] row.tag \in {"REP", "DEL"} -> Needs(2, 3 .. row.len)
    [] OTHER                      -> Needs(row.len + 1, {})

InfoNeeds                 == Needs(15, 2 .. 15)
ChunkserversNeeds         == Needs(10, 3 .. 9)
MetadataserversNeeds      == Needs(7, {2, 6})
MetadataserverStatusNeeds == Needs(3, {3})
DisksNeeds                == Needs(10, 6 .. 10)
GoalsNeeds                == Needs(3, {1})
MountsNeeds               == Needs(14, {1} \cup 6 .. 9)
ReadyCountNeeds(row)      == Needs(1, 1 .. row.len)

RowNeeds(c, row) ==
  CASE c = "info"                     -> InfoNeeds
    [] c = "list-chunkservers"        -> ChunkserversNeeds
    [] c = "list-metadataservers"     -> MetadataserversNeeds
    [] c = "metadataserver-status"    -> MetadataserverStatusNeeds
    [] c = "chunks-health"            -> ChunksHealthNeeds(row)
    [] c = "list-disks"               -> DisksNeeds
    [] c = "list-goals"               -> GoalsNeeds
    [] c = "list-mounts"              -> MountsNeeds
    [] c = "ready-chunkservers-count" -> ReadyCountNeeds(row)

Fits(c, row) ==
  /\ row.len >= RowNeeds(c, row).len
  /\ RowNeeds(c, row).numbers \cap row.text = {}
  /\ c = "ready-chunkservers-count" => row.len = 1

\* These take the first line and need one; the others take every line.
SingleLine == {"info", "ready-chunkservers-count", "metadataserver-status"}

\* Mutant: a row that does not fit is left out, the others count.
ParseLenient(c, out) ==
  LET rows == SelectSeq(out, LAMBDA row : Fits(c, row))
  IN [ok |-> TRUE, rows |-> rows]

Parse(c, out) ==
  LET rows == IF c \in SingleLine /\ out # <<>> THEN <<out[1]>> ELSE out
  IN [ok   |-> /\ c \in SingleLine => out # <<>>
               /\ \A i \in DOMAIN rows : Fits(c, rows[i]),
      rows |-> rows]

\* Collect runs metadataserver-status and never looks at what it prints.
Parsed == Commands \ {"metadataserver-status"}

-----------------------------------------------------------------------------
VARIABLES
  version,   \* version of the master's state
  pc,        \* where each scrape is
  holder,    \* the scrape that holds Collector.mu
  elapsed,   \* time since it started its subcommands
  answer,    \* results: what each subcommand of each scrape ended with
  from,      \* the version when the scrape started its subcommands
  response   \* what the client of each scrape got

vars == <<version, pc, holder, elapsed, answer, from, response>>

\* A series: the subcommand it comes from, its metric family, its labels, and the
\* version its value was true of.
SeriesType == [command : Commands, family : Commands \cup STRING, labels : Labels,
               version : Versions]

\* Type invariant.
TypeOK ==
  /\ version \in Versions
  /\ pc \in [Scrapes -> {"idle", "queued", "collecting", "done"}]
  /\ holder \in Scrapes \cup {NoScrape}
  /\ elapsed \in 0 .. Timeout
  /\ answer \in [Scrapes -> [Commands -> Answers \cup {NotRun, Running}]]
  /\ from \in [Scrapes -> Versions]
  /\ \A s \in Scrapes : response[s] # NoResponse =>
       /\ response[s].status \in {"ok", "error"}
       /\ response[s].up \in BOOLEAN
       /\ response[s].series \subseteq SeriesType

Init ==
  /\ version = 0
  /\ pc = [s \in Scrapes |-> "idle"]
  /\ holder = NoScrape
  /\ elapsed = 0
  /\ answer = [s \in Scrapes |-> [c \in Commands |-> NotRun]]
  /\ from = [s \in Scrapes |-> 0]
  /\ response = [s \in Scrapes |-> NoResponse]

-----------------------------------------------------------------------------
(* A client asks for /metrics: the handler calls Collect. *)
Request(s) ==
  /\ pc[s] = "idle"
  /\ pc' = [pc EXCEPT ![s] = "queued"]
  /\ UNCHANGED <<version, holder, elapsed, answer, from, response>>

\* Mutant: no mutex.
StartCommandsUnlocked(s) ==
  /\ pc[s] = "queued"
  /\ holder' = s
  /\ pc' = [pc EXCEPT ![s] = "collecting"]
  /\ answer' = [answer EXCEPT ![s] = [c \in Commands |-> Running]]
  /\ from' = [from EXCEPT ![s] = version]
  /\ elapsed' = 0
  /\ UNCHANGED <<version, response>>

(* mu.Lock, and a goroutine with a deadline of its own for every subcommand. *)
StartCommands(s) ==
  /\ pc[s] = "queued"
  /\ holder = NoScrape
  /\ holder' = s
  /\ pc' = [pc EXCEPT ![s] = "collecting"]
  /\ answer' = [answer EXCEPT ![s] = [c \in Commands |-> Running]]
  /\ from' = [from EXCEPT ![s] = version]
  /\ elapsed' = 0
  /\ UNCHANGED <<version, response>>

Ends(s, c, a) == answer' = [answer EXCEPT ![s][c] = a]
Failure == [err |-> TRUE, out |-> <<>>, version |-> 0]

(* A subcommand prints something and exits with 0. *)
CommandAnswers(s, c) ==
  /\ answer[s][c] = Running
  /\ \E out \in Outputs[c] : Ends(s, c, [err |-> FALSE, out |-> out, version |-> version])
  /\ UNCHANGED <<version, pc, holder, elapsed, from, response>>

(* It cannot be started, exits with another status, or is killed at its
   deadline. *)
CommandFails(s, c) ==
  /\ answer[s][c] = Running
  /\ Ends(s, c, Failure)
  /\ UNCHANGED <<version, pc, holder, elapsed, from, response>>

Tick ==
  /\ elapsed < Timeout
  /\ \E s \in Scrapes, c \in Commands : answer[s][c] = Running
  /\ elapsed' = elapsed + 1
  /\ UNCHANGED <<version, pc, holder, answer, from, response>>

\* Mutant: the deadline of one subcommand is not set.
KillCommandNever(s, c) ==
  /\ c # "info"
  /\ answer[s][c] = Running
  /\ elapsed = Timeout
  /\ Ends(s, c, Failure)
  /\ UNCHANGED <<version, pc, holder, elapsed, from, response>>

KillCommand(s, c) ==
  /\ answer[s][c] = Running
  /\ elapsed = Timeout
  /\ Ends(s, c, Failure)
  /\ UNCHANGED <<version, pc, holder, elapsed, from, response>>

\* Availability, replication and deletion have metrics of their own; otherwise a
\* subcommand stands for the metrics it feeds, and a row for its series in them.
Family(c, row) == IF c = "chunks-health" THEN row.tag ELSE c

\* Mutant: the first column becomes the label.
SeriesOfTag(c, a) ==
  IF a.err \/ ~Parse(c, a.out).ok THEN {}
  ELSE {[command |-> c, family |-> Family(c, row), labels |-> row.tag, version |-> a.version] :
          row \in Range(Parse(c, a.out).rows)}

SeriesOf(c, a) ==
  IF a.err \/ ~Parse(c, a.out).ok THEN {}
  ELSE {[command |-> c, family |-> Family(c, row), labels |-> row.labels, version |-> a.version] :
          row \in Range(Parse(c, a.out).rows)}

\* Gather refuses two series of one family with the same labels.
Repeats(c, a) ==
  LET rows == Parse(c, a.out).rows
  IN ~a.err /\ Parse(c, a.out).ok
     /\ \E i, j \in DOMAIN rows :
          /\ i # j
          /\ Family(c, rows[i]) = Family(c, rows[j])
          /\ rows[i].labels = rows[j].labels

Answered(s) == \A c \in Commands : answer[s][c] \notin {NotRun, Running}

Up(s) == \A c \in Commands : ~answer[s][c].err

\* The scrape is over: its results are gone, the mutex is free.
Leave(s) ==
  /\ pc' = [pc EXCEPT ![s] = "done"]
  /\ holder' = NoScrape
  /\ answer' = [answer EXCEPT ![s] = [c \in Commands |-> NotRun]]
  /\ elapsed' = 0
  /\ UNCHANGED <<version, from>>

Respond(s, status, series) ==
  response' = [response EXCEPT ![s] = [status |-> status, up |-> Up(s), series |-> series]]

\* Mutant: gauges that stay registered: what failed keeps its last value.
FinishWithStale(s) ==
  LET stale(c) == {x \in UNION {response[t].series : t \in {q \in Scrapes : pc[q] = "done"}} :
                     x.command = c /\ answer[s][c].err}
  IN /\ pc[s] = "collecting"
     /\ Answered(s)
     /\ Respond(s, "ok", UNION {SeriesOf(c, answer[s][c]) \cup stale(c) : c \in Parsed})
     /\ Leave(s)

(* wg.Wait is over: up and the series are emitted, mu.Unlock, and the handler
   answers, with an error if a series repeats. *)
Finish(s) ==
  LET bad == \E c \in Parsed : Repeats(c, answer[s][c])
  IN /\ pc[s] = "collecting"
     /\ Answered(s)
     /\ IF bad THEN Respond(s, "error", {})
        ELSE Respond(s, "ok", UNION {SeriesOf(c, answer[s][c]) : c \in Parsed})
     /\ Leave(s)

(* The filesystem goes on. *)
MasterChanges ==
  /\ version < MaxVersion
  /\ version' = version + 1
  /\ UNCHANGED <<pc, holder, elapsed, answer, from, response>>

Served == (\A s \in Scrapes : pc[s] = "done") /\ UNCHANGED vars

Next ==
  \/ \E s \in Scrapes : Request(s) \/ StartCommands(s) \/ Finish(s)
  \/ \E s \in Scrapes, c \in Commands :
       CommandAnswers(s, c) \/ CommandFails(s, c) \/ KillCommand(s, c)
  \/ Tick \/ MasterChanges \/ Served

(* Subcommands may hang: nothing but the clock is sure to end them.  A mutex of
   Go serves a waiting goroutine some day. *)
Fairness ==
  /\ WF_vars(Tick)
  /\ \A s \in Scrapes :
       /\ SF_vars(StartCommands(s))
       /\ WF_vars(Finish(s))
       /\ \A c \in Commands : WF_vars(KillCommand(s, c))

Spec == Init /\ [][Next]_vars /\ Fairness

-----------------------------------------------------------------------------
(***************************************************************************)
(* Safety                                                                  *)
(***************************************************************************)

(* However many clients scrape, and however slowly the master answers, the
   processes that run belong to one scrape: there are never more of them than
   subcommands, and none outlives the scrape that started it. *)
OneScrapeAtATime ==
  \A s \in Scrapes, c \in Commands : answer[s][c] = Running => holder = s

(* A response shows the filesystem as it was during its own scrape, and not what
   an earlier scrape, or the master before a failover, left behind. *)
Fresh ==
  \A s \in Scrapes : response[s] # NoResponse =>
    \A x \in response[s].series : from[s] <= x.version

(* A subcommand that fails, hangs or prints nonsense costs its own series, all of
   them, and no other's, as long as no series repeats. *)
FailuresAreIsolated ==
  [][\A s \in Scrapes : response'[s] # response[s] /\ response'[s].status = "ok" =>
       \A c \in Parsed :
         LET out   == answer[s][c].out
             rows  == {i \in DOMAIN out : c \in SingleLine => i = 1}
             shown == {x \in response'[s].series : x.command = c}
             good  == /\ ~answer[s][c].err
                      /\ c \in SingleLine => rows # {}
                      /\ \A i \in rows : Fits(c, out[i])
         IN Cardinality(shown) = IF good THEN Cardinality(rows) ELSE 0]_vars

(***************************************************************************)
(* Liveness                                                                *)
(***************************************************************************)

(* Every scrape is answered, although subcommands hang and scrapes wait for each
   other. *)
ScrapesAreAnswered == \A s \in Scrapes : pc[s] = "queued" ~> pc[s] = "done"
=============================================================================
