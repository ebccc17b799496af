SPECIFICATION FairSpec
CONSTANTS
  NUM_SAMPLE = 3
  SIZE_ENTROPY_POOL = 10
INVARIANTS TypeOK WeakOnlyByRace
PROPERTIES MailboxStable RequestServed
