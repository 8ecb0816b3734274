SPECIFICATION Spec
CONSTANTS
  p = p
  q = q
  r = r
  called = called
  placed = placed
  s1 = s1
  s2 = s2
  s3 = s3
  main = main
  dev = dev
  post1 = post1
  d1 = d1
  d2 = d2
  Pets = {p, q}
  Called = {called}
  Placed = {placed}
  CallerOf <- MCCallerOf
  AssignedTo <- MCAssignedTo
  MaxDeaths = 1
  Judges = {p, q, r}
  Ended = {s1, s2, s3}
  EndedOf <- MCEndedOf
  MaxPending = 1
  Batch = 1
  MaxFalls = 1
  NoJudge = NoJudge
  Branches = {main, dev}
  MaxCommits = 2
  Ignored <- MCIgnored
  MaxReviewsPerHour = 1
  MaxReviews = 3
  MaxStops = 1
  MaxUpdates = 3
  Unwanted = {2}
  Posts = {post1}
  MaxStarts = 2
  Deliveries = {d1, d2}
  MaxRetries = 2
  MaxLives = 1
INVARIANTS
  TypeOK
  DoneOnce
  
  
  ReviewsLimited
  UpdatesHandedOnce
  NoDeliveryForgotten
PROPERTY
  EveryCallAnswered
CHECK_DEADLOCK FALSE
