CONSTANT Requests = {r1}
SPECIFICATION FairSpec
INVARIANTS
  ClientSeesOneAttempt
  NothingOutlivesItsOwner
  CancellationsKeepTheirMeaning

  
