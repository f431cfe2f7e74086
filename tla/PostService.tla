----------------------------- MODULE PostService -----------------------------
(***************************************************************************)
(* What the service does for a Post once its author has asked for it: the  *)
(* publication, its counters and images (PostLifecycle), and the creation  *)
(* of its Like state by a durable job (PostLikeInit).  The job is committed *)
(* with the Post and read by nobody who publishes, uploads or collects, so  *)
(* a behaviour is one of either.                                            *)
(***************************************************************************)
EXTENDS PostLifecycle, PostLikeInit

serviceVars == <<lifecycleVars, vars>>

\* Long after: uploads and requests are over, the Post they were for is deleted.
LifecycleOff ==
  /\ objects = [m \in Media |-> {}]
  /\ lease = [m \in Media |-> NoRow] /\ cleanup = [m \in Media |-> NoRow]
  /\ upload = [m \in Media |-> [pc |-> "over", stored |-> 0]]
  /\ runner = [g \in Runners |-> NoRun] /\ postFaults = 0
  /\ root = [live |-> FALSE, reply |-> 0, quote |-> 0] /\ posts = {}
  /\ attempt = [a \in Attempts |-> "unavailable"]

\* Long after: the Posts are purged, their jobs and tombstones gone.
LikeInitOff ==
  /\ job = [p \in Posts |-> NoJob] /\ claims = [p \in Posts |-> MaxClaims]
  /\ worker = [w \in Workers |-> IdleWorker]
  /\ ready = [p \in Posts |-> "none"] /\ agg = [p \in Posts |-> Missing]
  /\ registered = {} /\ token = [p \in Posts |-> 0] /\ late = {}
  /\ likes = [p \in Posts |-> 0] /\ born = {}
  /\ sqlVersion = [p \in Posts |-> 0] /\ deletion = [p \in Posts |-> "purged"]
  /\ refusals = MaxRefusals /\ faults = MaxFaults

ServiceInit == (LifecycleInit /\ LikeInitOff) \/ (LifecycleOff /\ Init)
ServiceNext == (LifecycleNext /\ UNCHANGED vars) \/ (Next /\ UNCHANGED lifecycleVars)
ServiceFairSpec == ServiceInit /\ [][ServiceNext]_serviceVars /\ LifecycleFairness /\ Fairness
=============================================================================
