---------------------------- MODULE Exporter_proofs ----------------------------
(***************************************************************************)
(* Proofs about the exporter, for any number of scrapes, any subcommands   *)
(* and whatever they print.                                                *)
(***************************************************************************)
EXTENDS Exporter, FiniteSetTheorems, TLAPS

USE NoScrapeAssumption, MarkersAssumption, MaxVersionAssumption

(* Who collects holds the mutex, and only who collects has results. *)
LockInv ==
  /\ pc \in [Scrapes -> {"idle", "queued", "collecting", "done"}]
  /\ version \in Versions /\ from \in [Scrapes -> Versions]
  /\ answer \in [Scrapes -> [Commands -> Answers \cup {NotRun, Running}]]
  /\ \A s \in Scrapes : pc[s] = "collecting" <=> holder = s
  /\ \A s \in Scrapes, c \in Commands : answer[s][c] # NotRun => pc[s] = "collecting"

LEMMA FailureIsAnswer == version \in Versions => Failure \in Answers
BY DEF Failure, Answers, Versions

LEMMA OutputIsAnswer ==
  ASSUME version \in Versions, NEW c \in Commands, NEW out \in Outputs[c]
  PROVE  [err |-> FALSE, out |-> out, version |-> version] \in Answers
BY DEF Answers

LEMMA InitLockInv == Init => LockInv
BY DEF Init, LockInv, Versions

LEMMA NextLockInv == LockInv /\ [Next]_vars => LockInv'
<1> SUFFICES ASSUME LockInv, [Next]_vars
             PROVE  LockInv'
  OBVIOUS
<1> USE DEF LockInv
<1>1. ASSUME NEW s \in Scrapes, Request(s)
      PROVE  LockInv'
  BY <1>1 DEF Request
<1>2. ASSUME NEW s \in Scrapes, StartCommands(s)
      PROVE  LockInv'
  BY <1>2 DEF StartCommands
<1>3. ASSUME NEW s \in Scrapes, Finish(s)
      PROVE  LockInv'
  <2>1. Leave(s) /\ pc[s] = "collecting"
    BY <1>3 DEF Finish
  <2> QED  BY <2>1 DEF Leave
<1>4. ASSUME NEW s \in Scrapes, NEW c \in Commands,
             CommandAnswers(s, c) \/ CommandFails(s, c) \/ KillCommand(s, c)
      PROVE  LockInv'
  <2>1. PICK a \in Answers : Ends(s, c, a)
    BY <1>4, FailureIsAnswer, OutputIsAnswer DEF CommandAnswers, CommandFails, KillCommand
  <2>2. answer[s][c] = Running /\ UNCHANGED <<version, pc, holder, from>>
    BY <1>4 DEF CommandAnswers, CommandFails, KillCommand
  <2> QED  BY <2>1, <2>2 DEF Ends
<1>5. CASE Tick
  BY <1>5 DEF Tick
<1>6. CASE MasterChanges
  BY <1>6 DEF MasterChanges, Versions
<1>7. CASE UNCHANGED vars
  BY <1>7 DEF vars
<1> QED  BY <1>1, <1>2, <1>3, <1>4, <1>5, <1>6, <1>7 DEF Next, Served

(* OneScrapeAtATime: the processes that run belong to the scrape that holds the
   mutex. *)
THEOREM MutualExclusion == Spec => []OneScrapeAtATime
<1>1. LockInv => OneScrapeAtATime
  BY DEF LockInv, OneScrapeAtATime
<1> QED  BY <1>1, InitLockInv, NextLockInv, PTL DEF Spec

-----------------------------------------------------------------------------
(* What a scrape knows, and shows, is no older than the scrape. *)
FreshInv ==
  /\ \A s \in Scrapes : pc[s] \in {"collecting", "done"} => from[s] <= version
  /\ \A s \in Scrapes : response[s] # NoResponse => pc[s] = "done"
  /\ \A s \in Scrapes, c \in Commands :
       answer[s][c] \in Answers /\ ~answer[s][c].err => from[s] <= answer[s][c].version
  /\ Fresh

LEMMA SeriesVersion ==
  ASSUME NEW c, NEW a, NEW x \in SeriesOf(c, a)
  PROVE  ~a.err /\ x.version = a.version
BY DEF SeriesOf

LEMMA InitFreshInv == Init => FreshInv
BY DEF Init, FreshInv, Fresh

LEMMA NextFreshInv == LockInv /\ FreshInv /\ [Next]_vars => FreshInv'
<1> SUFFICES ASSUME LockInv, FreshInv, [Next]_vars
             PROVE  FreshInv'
  OBVIOUS
<1> USE DEF LockInv, FreshInv, Fresh, Versions
<1>1. ASSUME NEW s \in Scrapes, Request(s)
      PROVE  FreshInv'
  BY <1>1 DEF Request
<1>2. ASSUME NEW s \in Scrapes, StartCommands(s)
      PROVE  FreshInv'
  BY <1>2 DEF StartCommands
<1>3. ASSUME NEW s \in Scrapes, Finish(s)
      PROVE  FreshInv'
  <2>1. Leave(s) /\ pc[s] = "collecting" /\ Answered(s)
    BY <1>3 DEF Finish
  <2>2. PICK status, series :
          /\ Respond(s, status, series)
          /\ series = {} \/ series = UNION {SeriesOf(c, answer[s][c]) : c \in Parsed}
    BY <1>3 DEF Finish
  <2>3. ASSUME NEW x \in series
        PROVE  from[s] <= x.version
    BY <2>1, <2>2, SeriesVersion DEF Parsed, Answered
  <2>4. response' = [response EXCEPT ![s] = [status |-> status, up |-> Up(s), series |-> series]]
    BY <2>2 DEF Respond
  <2> QED  BY <2>1, <2>3, <2>4 DEF Leave
<1>4. ASSUME NEW s \in Scrapes, NEW c \in Commands,
             CommandAnswers(s, c) \/ CommandFails(s, c) \/ KillCommand(s, c)
      PROVE  FreshInv'
  <2>1. PICK a \in Answers : Ends(s, c, a) /\ (a.err \/ a.version = version)
    <3>1. CASE CommandAnswers(s, c)
      <4>1. PICK out \in Outputs[c] : Ends(s, c, [err |-> FALSE, out |-> out, version |-> version])
        BY <3>1 DEF CommandAnswers
      <4> QED  BY <4>1, OutputIsAnswer
    <3>2. CASE Ends(s, c, Failure)
      BY <3>2, FailureIsAnswer DEF Failure
    <3> QED  BY <1>4, <3>1, <3>2 DEF CommandFails, KillCommand
  <2>2. answer[s][c] = Running /\ UNCHANGED <<version, pc, from, response>>
    BY <1>4 DEF CommandAnswers, CommandFails, KillCommand
  <2>3. from[s] <= version
    BY <2>2
  <2> QED  BY <2>1, <2>2, <2>3 DEF Ends
<1>5. CASE Tick
  BY <1>5 DEF Tick
<1>6. CASE MasterChanges
  BY <1>6 DEF MasterChanges
<1>7. CASE UNCHANGED vars
  BY <1>7 DEF vars
<1> QED  BY <1>1, <1>2, <1>3, <1>4, <1>5, <1>6, <1>7 DEF Next, Served

(* Fresh: no response shows a value that was read before its scrape began. *)
THEOREM NothingStale == Spec => []Fresh
<1>1. FreshInv => Fresh
  BY DEF FreshInv
<1> QED  BY <1>1, InitLockInv, NextLockInv, InitFreshInv, NextFreshInv, PTL DEF Spec

-----------------------------------------------------------------------------
(* What a subcommand prints is a sequence of rows, and so is what is parsed of it. *)
LEMMA AnswerIsOutput ==
  ASSUME NEW a \in Answers
  PROVE  a.out \in Seq(RowType) /\ a.err \in BOOLEAN /\ a.version \in Versions
<1>1. a.out \in {<<>>} \cup UNION {Outputs[c] : c \in Commands}
  BY DEF Answers
<1>2. CASE a.out = <<>>
  BY <1>2 DEF Answers
<1>3. CASE a.out # <<>>
  <2>1. PICK c \in Commands : a.out \in Outputs[c]
    BY <1>1, <1>3
  <2> QED  BY <2>1, OutputsAssumption DEF Answers
<1> QED  BY <1>2, <1>3

\* The rows that count: the first one, or all of them.
RowsOf(c, out) == {i \in DOMAIN out : c \in SingleLine => i = 1}

LEMMA ParseTakes ==
  ASSUME NEW c, NEW out \in Seq(RowType)
  PROVE  /\ DOMAIN Parse(c, out).rows = RowsOf(c, out)
         /\ \A i \in RowsOf(c, out) : Parse(c, out).rows[i] = out[i] /\ out[i] \in RowType
         /\ Parse(c, out).ok <=> /\ c \in SingleLine => RowsOf(c, out) # {}
                                 /\ \A i \in RowsOf(c, out) : Fits(c, out[i])
         /\ IsFiniteSet(RowsOf(c, out))
<1>1. DOMAIN out = 1 .. Len(out) /\ Len(out) \in Nat /\ (out # <<>> => Len(out) >= 1)
  OBVIOUS
<1>2. IsFiniteSet(RowsOf(c, out))
  <2>1. IsFiniteSet(1 .. Len(out))
    BY <1>1, FS_Interval
  <2>2. RowsOf(c, out) \in SUBSET (1 .. Len(out))
    BY <1>1 DEF RowsOf
  <2> QED  BY <2>1, <2>2, FS_Subset
<1>3. CASE c \in SingleLine /\ out # <<>>
  <2>1. RowsOf(c, out) = {1}
    BY <1>1, <1>3 DEF RowsOf
  <2>2. Parse(c, out).rows = <<out[1]>>
    BY <1>3 DEF Parse
  <2>3. Parse(c, out).ok <=> \A i \in DOMAIN <<out[1]>> : Fits(c, <<out[1]>>[i])
    BY <1>3 DEF Parse
  <2> QED  BY <1>1, <1>2, <1>3, <2>1, <2>2, <2>3
<1>4. CASE c \in SingleLine /\ out = <<>>
  BY <1>2, <1>4 DEF Parse, RowsOf
<1>5. CASE c \notin SingleLine
  BY <1>1, <1>2, <1>5 DEF Parse, RowsOf
<1> QED  BY <1>3, <1>4, <1>5

(* A good subcommand shows one series for every row: family and labels tell them apart.  One that is not good shows none. *)
LEMMA SeriesCount ==
  ASSUME NEW c, NEW a \in Answers, ~Repeats(c, a)
  PROVE  Cardinality(SeriesOf(c, a)) =
           IF ~a.err /\ Parse(c, a.out).ok THEN Cardinality(RowsOf(c, a.out)) ELSE 0
<1> DEFINE rows == Parse(c, a.out).rows
           R == RowsOf(c, a.out)
           S == SeriesOf(c, a)
           f == [i \in R |-> [command |-> c, family |-> Family(c, rows[i]), labels |-> rows[i].labels,
                           version |-> a.version]]
<1>1. a.out \in Seq(RowType) /\ a.err \in BOOLEAN
  BY AnswerIsOutput
<1>2. IsFiniteSet(R) /\ DOMAIN rows = R
  BY <1>1, ParseTakes
<1>3. CASE ~a.err /\ Parse(c, a.out).ok
  <2>1. \A i, j \in R :
          Family(c, rows[i]) = Family(c, rows[j]) /\ rows[i].labels = rows[j].labels => i = j
    BY <1>2, <1>3 DEF Repeats
  <2>2. S = {[command |-> c, family |-> Family(c, row), labels |-> row.labels,
              version |-> a.version] : row \in Range(rows)}
    BY <1>3 DEF SeriesOf
  <2>3. S = {f[i] : i \in R}
    BY <1>2, <2>2 DEF Range
  <2>4. f \in Surjection(R, S) /\ f \in Injection(R, S)
    BY <2>1, <2>3 DEF Surjection, Injection, IsInjective
  <2> HIDE DEF R, S, f
  <2>5. Cardinality(S) = Cardinality(R)
    BY <1>2, <2>4, FS_Surjection
  <2> QED  BY <1>3, <2>5 DEF R, S
<1>4. CASE ~(~a.err /\ Parse(c, a.out).ok)
  BY <1>1, <1>4, FS_EmptySet DEF SeriesOf
<1> QED  BY <1>3, <1>4

-----------------------------------------------------------------------------
(* Responses belong to scrapes and show series of the subcommands. *)
ResponseInv ==
  /\ response = [s \in Scrapes |-> response[s]]
  /\ elapsed \in 0 .. Timeout
  /\ holder \in Scrapes \cup {NoScrape}
  /\ \A s \in Scrapes : response[s] # NoResponse =>
       /\ response[s].status \in {"ok", "error"}
       /\ response[s].up \in BOOLEAN
       /\ response[s].series \subseteq SeriesType

LEMMA SeriesTyped ==
  ASSUME NEW c \in Commands, NEW a \in Answers
  PROVE  SeriesOf(c, a) \subseteq SeriesType
<1> SUFFICES ASSUME NEW x \in SeriesOf(c, a)
             PROVE  x \in SeriesType
  OBVIOUS
<1>1. PICK row \in Range(Parse(c, a.out).rows) :
        x = [command |-> c, family |-> Family(c, row), labels |-> row.labels,
             version |-> a.version]
  BY DEF SeriesOf
<1>2. row \in RowType
  BY <1>1, AnswerIsOutput, ParseTakes DEF Range
<1>3. Family(c, row) \in Commands \cup STRING
  BY <1>2 DEF Family, RowType
<1> QED  BY <1>1, <1>2, <1>3, AnswerIsOutput DEF SeriesType, RowType

LEMMA InitResponseInv == Init => ResponseInv
BY TimeoutAssumption DEF Init, ResponseInv

LEMMA NextResponseInv == LockInv /\ ResponseInv /\ [Next]_vars => ResponseInv'
<1> SUFFICES ASSUME LockInv, ResponseInv, [Next]_vars
             PROVE  ResponseInv'
  OBVIOUS
<1> USE TimeoutAssumption DEF ResponseInv
<1>1. ASSUME NEW s \in Scrapes, Request(s)
      PROVE  ResponseInv'
  BY <1>1 DEF Request
<1>2. ASSUME NEW s \in Scrapes, StartCommands(s)
      PROVE  ResponseInv'
  BY <1>2 DEF StartCommands
<1>3. ASSUME NEW s \in Scrapes, Finish(s)
      PROVE  ResponseInv'
  <2>1. Leave(s) /\ Answered(s) /\ Up(s) \in BOOLEAN
    BY <1>3 DEF Finish, Up
  <2>0. PICK status \in {"ok", "error"} :
          \E series : /\ Respond(s, status, series)
                      /\ series = {} \/ series = UNION {SeriesOf(c, answer[s][c]) : c \in Parsed}
    BY <1>3 DEF Finish
  <2>2. PICK series : /\ Respond(s, status, series)
                      /\ series = {} \/ series = UNION {SeriesOf(c, answer[s][c]) : c \in Parsed}
    BY <2>0
  <2>3. \A c \in Commands : answer[s][c] \in Answers
    BY <2>1 DEF Answered, LockInv
  <2>4. series \subseteq SeriesType
    BY <2>2, <2>3, SeriesTyped DEF Parsed
  <2>5. response' = [response EXCEPT ![s] = [status |-> status, up |-> Up(s), series |-> series]]
    BY <2>2 DEF Respond
  <2> QED  BY <2>1, <2>4, <2>5 DEF Leave
<1>4. ASSUME NEW s \in Scrapes, NEW c \in Commands,
             CommandAnswers(s, c) \/ CommandFails(s, c) \/ KillCommand(s, c)
      PROVE  ResponseInv'
  BY <1>4 DEF CommandAnswers, CommandFails, KillCommand
<1>5. CASE Tick
  BY <1>5 DEF Tick
<1>6. CASE MasterChanges
  BY <1>6 DEF MasterChanges
<1>7. CASE UNCHANGED vars
  BY <1>7 DEF vars
<1> QED  BY <1>1, <1>2, <1>3, <1>4, <1>5, <1>6, <1>7 DEF Next, Served

(* Every response is made of the series of subcommands that were run, and every result
   belongs to a scrape that is being answered. *)
THEOREM TypeCorrect == Spec => []TypeOK
<1>1. LockInv /\ ResponseInv => TypeOK
  BY DEF LockInv, ResponseInv, TypeOK
<1> QED  BY <1>1, InitLockInv, NextLockInv, InitResponseInv, NextResponseInv, PTL DEF Spec

(* FailuresAreIsolated: a response with status 200 has a series for every row of every
   subcommand that ended well and was understood, and none of the others, whatever
   they print and however they end. *)
THEOREM Isolation == Spec => FailuresAreIsolated
<1> DEFINE Good(s, c) ==
             LET out  == answer[s][c].out
                 rows == {i \in DOMAIN out : c \in SingleLine => i = 1}
             IN /\ ~answer[s][c].err
                /\ c \in SingleLine => rows # {}
                /\ \A i \in rows : Fits(c, out[i])
<1>1. ASSUME LockInv, ResponseInv, [Next]_vars, NEW s \in Scrapes,
             response'[s] # response[s], response'[s].status = "ok", NEW c \in Parsed
      PROVE  Cardinality({x \in response'[s].series : x.command = c}) =
               IF Good(s, c) THEN Cardinality(RowsOf(c, answer[s][c].out)) ELSE 0
  <2>1. Finish(s)
    <3>1. PICK t \in Scrapes : Finish(t)
      BY <1>1 DEF Next, vars, Request, StartCommands, CommandAnswers, CommandFails, KillCommand,
                  Tick, MasterChanges, Served
    <3>2. \E v : response' = [response EXCEPT ![t] = v]
      BY <3>1 DEF Finish, Respond
    <3> QED  BY <1>1, <3>1, <3>2 DEF ResponseInv
  <2>2. \A d \in Commands : answer[s][d] \in Answers
    BY <1>1, <2>1 DEF Finish, Answered, LockInv
  <2> DEFINE all == UNION {SeriesOf(d, answer[s][d]) : d \in Parsed}
  <2>3. ~Repeats(c, answer[s][c]) /\ response'[s].series = all
    <3>1. PICK status, series :
            /\ response' = [response EXCEPT ![s] = [status |-> status, up |-> Up(s), series |-> series]]
            /\ \/ status = "error"
               \/ series = all /\ ~Repeats(c, answer[s][c])
      BY <1>1, <2>1 DEF Finish, Respond
    <3> HIDE DEF all
    <3>2. response'[s] = [status |-> status, up |-> Up(s), series |-> series]
      BY <1>1, <3>1 DEF ResponseInv
    <3> QED  BY <1>1, <3>1, <3>2
  <2>4. {x \in all : x.command = c} = SeriesOf(c, answer[s][c])
    BY DEF SeriesOf
  <2>5. c \in Commands /\ answer[s][c].out \in Seq(RowType)
    BY <2>2, AnswerIsOutput DEF Parsed
  <2>6. Good(s, c) <=> ~answer[s][c].err /\ Parse(c, answer[s][c].out).ok
    BY <2>5, ParseTakes DEF RowsOf
  <2> QED  BY <2>2, <2>3, <2>4, <2>5, <2>6, SeriesCount
<1>2. LockInv /\ ResponseInv /\ [Next]_vars =>
        [\A s \in Scrapes : response'[s] # response[s] /\ response'[s].status = "ok" =>
           \A c \in Parsed :
             LET out   == answer[s][c].out
                 rows  == {i \in DOMAIN out : c \in SingleLine => i = 1}
                 shown == {x \in response'[s].series : x.command = c}
                 good  == /\ ~answer[s][c].err
                          /\ c \in SingleLine => rows # {}
                          /\ \A i \in rows : Fits(c, out[i])
             IN Cardinality(shown) = IF good THEN Cardinality(rows) ELSE 0]_vars
  BY <1>1 DEF RowsOf
<1> QED  BY <1>2, InitLockInv, NextLockInv, InitResponseInv, NextResponseInv, PTL
         DEF Spec, FailuresAreIsolated
=============================================================================
