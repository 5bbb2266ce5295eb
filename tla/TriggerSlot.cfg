SPECIFICATION FairSpec
CONSTANTS
  a1 = a1
  a2 = a2
  Rev = {r1}
  NoRev = NoRev
  PollInterval = 2
  WebhookInterval = 1
  SourceRevision = r1
  SourceKind = {"webhook", "cron", "poll"}
  Claim <- Claims
  MaxEvents = 1
CONSTRAINT SecondClaim
INVARIANTS ObservedWasServed
PROPERTIES Cadence ArmedSwept
