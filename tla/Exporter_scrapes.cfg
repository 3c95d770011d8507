CONSTANTS
  Scrapes = {s1, s2}
  Commands = {"info", "chunks-health", "metadataserver-status"}
  Labels = {"a", "b"}
  Outputs <- MCOutputs
  Timeout = 2
  NotRun = NotRun
  Running = Running
  NoScrape = NoScrape
  NoResponse = NoResponse
  MaxVersion = 1
SPECIFICATION Spec
INVARIANTS TypeOK OneScrapeAtATime Fresh
PROPERTIES FailuresAreIsolated ScrapesAreAnswered
