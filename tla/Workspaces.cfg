\* One user with two projects and two tabs; a session outlives the clock.
CONSTANTS
  WsUsers = {u}
  WsEmail <- Emails
  WsProjects = {p, q}
  WsTabs = {t1, t2}
  NoWs = NoWs
  WsTtl = 2
  MaxWsTime = 1
SPECIFICATION WorkspacesSpec
INVARIANT ActsOnTheShownProject
CHECK_DEADLOCK FALSE
