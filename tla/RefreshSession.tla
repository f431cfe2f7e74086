--------------------------- MODULE RefreshSession ---------------------------
(***************************************************************************)
(* Refresh-token families of one account: a family is a Redis hash whose   *)
(* secret is replaced at every use.  A used secret leaves a marker, so that *)
(* a second use ends the family, and a recovery record lets the very same  *)
(* request fetch its lost answer for a short while.  A password change      *)
(* raises auth_version in SQL, which every refresh compares afterwards.     *)
(*                                                                         *)
(*   auth/service.go, auth/refresh_store.go, auth/logout.go                *)
(*   controllers/auth_controller.go, auth_password.go, auth_logout.go      *)
(*                                                                         *)
(* A secret is the number of rotations before it; its hash and the sealed  *)
(* successor stand for the secret itself.  Every token that was ever handed *)
(* out may be presented at any time and any number of times, which covers  *)
(* retries, duplicates and delays.                                         *)
(***************************************************************************)
EXTENDS Integers, FiniteSets

CONSTANTS
  Sessions,     \* session ids
  Requests,     \* refresh request ids
  NoRequest,    \* a refresh without request id
  Handlers,     \* requests being served
  Passwords,
  IdleTTL, AbsoluteTTL, RecoveryTTL,   \* in ticks
  MaxLag,       \* bound: ticks between reading the clock and running the script
  MaxTime,      \* bound: ticks
  MaxSecret,    \* bound: rotations of one family
  MaxVersion    \* bound: auth_version

ASSUME NoRequestAssumption == NoRequest \notin Requests
ASSUME TTLAssumption ==
  /\ IdleTTL \in Nat \ {0} /\ AbsoluteTTL \in Nat \ {0} /\ RecoveryTTL \in Nat \ {0}
  /\ MaxLag \in Nat /\ MaxTime \in Nat /\ MaxSecret \in Nat /\ MaxVersion \in Nat \ {0}

VARIABLES
  now,          \* seconds
  authVersion,  \* users.auth_version
  password,     \* users.password
  created,      \* session ids in use: they are never given out again
  session,      \* auth:refresh:v1:{s}
  used,         \* auth:refresh:used:v1:{s}:n
  recovery,     \* auth:refresh:recovery:v1:{s}:n:rid
  handler,      \* where each handler is
  answers,      \* history: the tokens handed out
  loggedOut     \* history: families whose logout succeeded

vars == <<now, authVersion, password, created, session, used, recovery, handler, answers, loggedOut>>

-----------------------------------------------------------------------------
Secrets    == 0..MaxSecret
RequestIds == Requests \cup {NoRequest}
NoSession  == [secret |-> 0, version |-> 0, absolute |-> 0, until |-> 0]
Session    == [secret : Secrets, version : 0..MaxVersion, absolute : Nat, until : Nat]

Alive(s) == session[s].until > now

\* at: the clock as the handler read it; next: the successor it got from Redis;
\* seen: history, auth_version when the refresh arrived.
Idle == [phase |-> "idle", s |-> NoRequest, old |-> 0, rid |-> NoRequest, at |-> 0,
         next |-> 0, version |-> 0, seen |-> 0, cur |-> NoRequest, new |-> NoRequest]

Least(a, b) == IF a < b THEN a ELSE b

\* Tokens some client may hold.
Known == {<<a.s, a.next>> : a \in answers}

Done(h) == handler' = [handler EXCEPT ![h] = Idle]

-----------------------------------------------------------------------------
TypeOK ==
  /\ now \in 0..MaxTime
  /\ authVersion \in 1..MaxVersion
  /\ password \in Passwords
  /\ created \subseteq Sessions
  /\ session \in [Sessions -> Session]
  /\ \A s \in Sessions : session[s] # NoSession => s \in created /\ session[s].version > 0
  /\ \A u \in used : u.s \in Sessions /\ u.secret \in Secrets /\ u.until > now
  /\ \A k \in recovery : k.s \in Sessions /\ {k.old, k.next} \subseteq Secrets /\ k.rid \in Requests /\ k.until > now
  /\ \A h \in Handlers : handler[h].phase \in {"idle", "login", "refresh", "rotated", "accepted", "revoke", "change"}
  /\ \A a \in answers : a.s \in created /\ a.rid \in RequestIds /\ {a.old, a.next} \subseteq Secrets
  /\ loggedOut \subseteq Sessions

Init ==
  /\ now = 0
  /\ authVersion = 1
  /\ password \in Passwords
  /\ created = {}
  /\ session = [s \in Sessions |-> NoSession]
  /\ used = {} /\ recovery = {}
  /\ handler = [h \in Handlers |-> Idle]
  /\ answers = {}
  /\ loggedOut = {}

\* Time passes and Redis drops what has expired.
Tick ==
  LET t == now + 1
  IN /\ t <= MaxTime
     /\ \A h \in Handlers : handler[h].phase \in {"login", "refresh"} => t - handler[h].at <= MaxLag
     /\ now' = t
     /\ session' = [s \in Sessions |-> IF session[s].until > t THEN session[s] ELSE NoSession]
     /\ used' = {u \in used : u.until > t}
     /\ recovery' = {k \in recovery : k.until > t}
     /\ UNCHANGED <<authVersion, password, created, handler, answers, loggedOut>>

-----------------------------------------------------------------------------
(* Login.                                                                  *)

\* The account is read and its password checked.
StartLogin(h) ==
  /\ handler[h].phase = "idle"
  /\ handler' = [handler EXCEPT ![h] = [Idle EXCEPT !.phase = "login", !.at = now, !.version = authVersion]]
  /\ UNCHANGED <<now, authVersion, password, created, session, used, recovery, answers, loggedOut>>

\* IssuePair, with the version read before.
IssuePair(h) ==
  /\ handler[h].phase = "login"
  /\ \E s \in Sessions \ created :
       /\ created' = created \cup {s}
       /\ session' = [session EXCEPT ![s] =
            [secret |-> 0, version |-> handler[h].version,
             absolute |-> handler[h].at + AbsoluteTTL,
             until |-> now + Least(IdleTTL, AbsoluteTTL)]]
       /\ answers' = answers \cup {[kind |-> "login", s |-> s, old |-> 0, rid |-> NoRequest, next |-> 0,
                                     version |-> handler[h].version]}
  /\ Done(h)
  /\ UNCHANGED <<now, authVersion, password, used, recovery, loggedOut>>

-----------------------------------------------------------------------------
(* Refresh.                                                                *)

StartRefresh(h) ==
  /\ handler[h].phase = "idle"
  /\ \E k \in Known, rid \in RequestIds :
       handler' = [handler EXCEPT ![h] =
         [Idle EXCEPT !.phase = "refresh", !.s = k[1], !.old = k[2], !.rid = rid, !.at = now,
                !.seen = authVersion]]
  /\ UNCHANGED <<now, authVersion, password, created, session, used, recovery, answers, loggedOut>>

Marked(s, n) == \E u \in used : u.s = s /\ u.secret = n

Recoverable_AnyRequest(h) ==
  LET q == handler[h]
  IN {k \in recovery : k.s = q.s /\ k.old = q.old
                       /\ k.next = session[q.s].secret /\ session[q.s].absolute > q.at}

\* The record that gives request rid the successor of n, if it is still current.
Recoverable(h) ==
  LET q == handler[h]
  IN {k \in recovery : k.s = q.s /\ k.old = q.old /\ k.rid = q.rid
                       /\ k.next = session[q.s].secret /\ session[q.s].absolute > q.at}

SessionTTL_NotCapped(h) ==
  IF session[handler[h].s].absolute > handler[h].at THEN IdleTTL ELSE 0

SessionTTL(h) == Least(IdleTTL, session[handler[h].s].absolute - handler[h].at)

MarkerTTL_Session(h) == SessionTTL(h)

MarkerTTL(h) == session[handler[h].s].absolute - handler[h].at

\* The presented secret is current: mark it used and install its successor.
Rotate(h) ==
  LET q    == handler[h]
      next == q.old + 1
  IN /\ q.phase = "refresh"
     /\ Alive(q.s) /\ session[q.s].secret = q.old
     /\ SessionTTL(h) >= 1
     /\ next <= MaxSecret
     /\ used' = used \cup {[s |-> q.s, secret |-> q.old, until |-> now + MarkerTTL(h)]}
     /\ session' = [session EXCEPT ![q.s].secret = next, ![q.s].until = now + SessionTTL(h)]
     /\ recovery' = IF q.rid = NoRequest THEN recovery
                    ELSE recovery \cup {[s |-> q.s, old |-> q.old, rid |-> q.rid, next |-> next,
                                         until |-> now + Least(RecoveryTTL, SessionTTL(h))]}
     /\ handler' = [handler EXCEPT ![h].phase = "rotated", ![h].next = next, ![h].version = session[q.s].version]
     /\ UNCHANGED <<now, authVersion, password, created, answers, loggedOut>>

\* The same request again, before anybody used its successor.
Recover(h) ==
  LET q == handler[h]
  IN /\ q.phase = "refresh"
     /\ Alive(q.s) /\ session[q.s].secret # q.old /\ Marked(q.s, q.old)
     /\ \E k \in Recoverable(h) :
          handler' = [handler EXCEPT ![h].phase = "rotated", ![h].next = k.next, ![h].version = session[q.s].version]
     /\ UNCHANGED <<now, authVersion, password, created, session, used, recovery, answers, loggedOut>>

\* Reuse of a spent secret, or the absolute deadline: the family ends.
EndFamily(h) ==
  LET q == handler[h]
  IN /\ q.phase = "refresh"
     /\ Alive(q.s)
     /\ \/ session[q.s].secret # q.old /\ Marked(q.s, q.old) /\ Recoverable(h) = {}
        \/ session[q.s].secret = q.old /\ SessionTTL(h) < 1
     /\ session' = [session EXCEPT ![q.s] = NoSession]
     /\ Done(h)
     /\ UNCHANGED <<now, authVersion, password, created, used, recovery, answers, loggedOut>>

\* The family is gone, or the secret is unknown to it.
RefuseRefresh(h) ==
  LET q == handler[h]
  IN /\ q.phase = "refresh"
     /\ Alive(q.s) => session[q.s].secret # q.old /\ ~Marked(q.s, q.old)
     /\ Done(h)
     /\ UNCHANGED <<now, authVersion, password, created, session, used, recovery, answers, loggedOut>>

AcceptVersion_NoVersionCheck(h) ==
  /\ handler[h].phase = "rotated"
  /\ handler' = [handler EXCEPT ![h].phase = "accepted"]
  /\ UNCHANGED <<now, authVersion, password, created, session, used, recovery, answers, loggedOut>>

\* The user row is read: it still has the version of the family.
AcceptVersion(h) ==
  /\ handler[h].phase = "rotated"
  /\ handler[h].version = authVersion
  /\ handler' = [handler EXCEPT ![h].phase = "accepted"]
  /\ UNCHANGED <<now, authVersion, password, created, session, used, recovery, answers, loggedOut>>

\* The user row is read: the password was changed after the family was opened.
RejectVersion(h) ==
  /\ handler[h].phase = "rotated"
  /\ handler[h].version # authVersion
  /\ handler' = [handler EXCEPT ![h].phase = "revoke"]
  /\ UNCHANGED <<now, authVersion, password, created, session, used, recovery, answers, loggedOut>>

\* The pair is sent, whatever became of the account since its row was read.
AnswerRefresh(h) ==
  LET q == handler[h]
  IN /\ q.phase = "accepted"
     /\ answers' = answers \cup {[kind |-> "refresh", s |-> q.s, old |-> q.old, rid |-> q.rid, next |-> q.next,
                                  version |-> q.version]}
     /\ Done(h)
     /\ UNCHANGED <<now, authVersion, password, created, session, used, recovery, loggedOut>>

\* revokeRefreshSessionScript takes the current secret and every spent one.
Revocable(s, n) == Alive(s) /\ (session[s].secret = n \/ Marked(s, n))

Revoke_CurrentOnly(s, n) ==
  session' = IF Alive(s) /\ session[s].secret = n THEN [session EXCEPT ![s] = NoSession] ELSE session

Revoke(s, n) == session' = IF Revocable(s, n) THEN [session EXCEPT ![s] = NoSession] ELSE session

RevokeRejected(h) ==
  /\ handler[h].phase = "revoke"
  /\ Revoke(handler[h].s, handler[h].next)
  /\ Done(h)
  /\ UNCHANGED <<now, authVersion, password, created, used, recovery, answers, loggedOut>>

\* The client is gone, the process dies or a store is unavailable.
HandlerFails(h) ==
  /\ handler[h].phase # "idle"
  /\ Done(h)
  /\ UNCHANGED <<now, authVersion, password, created, session, used, recovery, answers, loggedOut>>

\* Logout is refused only for a secret the family does not know.
Logout(s, n) ==
  /\ <<s, n>> \in Known
  /\ Alive(s) => Revocable(s, n)
  /\ Revoke(s, n)
  /\ loggedOut' = loggedOut \cup {s}
  /\ UNCHANGED <<now, authVersion, password, created, used, recovery, handler, answers>>

-----------------------------------------------------------------------------
(* Password change.                                                        *)

\* The submitted password is checked against the row as first read.
StartChange(h) ==
  /\ handler[h].phase = "idle"
  /\ \E new \in Passwords \ {password} :
       handler' = [handler EXCEPT ![h] =
         [Idle EXCEPT !.phase = "change", !.version = authVersion, !.cur = password, !.new = new]]
  /\ UNCHANGED <<now, authVersion, password, created, session, used, recovery, answers, loggedOut>>

CommitChange_TrustsFirstRead(h) ==
  LET q == handler[h]
  IN /\ q.phase = "change"
     /\ authVersion < MaxVersion
     /\ password' = q.new
     /\ authVersion' = authVersion + 1
     /\ Done(h)
     /\ UNCHANGED <<now, created, session, used, recovery, answers, loggedOut>>

\* Under the row lock; a row that changed since has its password checked again.
CommitChange(h) ==
  LET q == handler[h]
  IN /\ q.phase = "change"
     /\ authVersion < MaxVersion
     /\ q.version = authVersion \/ q.cur = password
     /\ password' = q.new
     /\ authVersion' = authVersion + 1
     /\ Done(h)
     /\ UNCHANGED <<now, created, session, used, recovery, answers, loggedOut>>

-----------------------------------------------------------------------------
HandlerNext(h) ==
  \/ StartLogin(h) \/ IssuePair(h)
  \/ StartRefresh(h) \/ Rotate(h) \/ Recover(h) \/ EndFamily(h) \/ RefuseRefresh(h)
  \/ AcceptVersion(h) \/ RejectVersion(h) \/ AnswerRefresh(h) \/ RevokeRejected(h) \/ HandlerFails(h)
  \/ StartChange(h) \/ CommitChange(h)

Next ==
  \/ Tick
  \/ \E h \in Handlers : HandlerNext(h)
  \/ \E s \in Sessions, n \in Secrets : Logout(s, n)

Spec == Init /\ [][Next]_vars

-----------------------------------------------------------------------------
(* Properties.                                                             *)

\* A family is a chain: whatever is repeated, delayed or raced, the answers to
\* one secret name one successor, and only the request that won it gets it.
SingleSuccessor ==
  \A a, b \in answers :
    a.kind = "refresh" /\ b.kind = "refresh" /\ a.s = b.s /\ a.old = b.old => a = b

\* Until the absolute deadline every spent secret of a living family has its
\* marker: reuse is always detected and logout accepts what the client holds.
MarkersCoverFamily ==
  TypeOK /\ \A s \in Sessions : Alive(s) /\ now < session[s].absolute =>
    \A n \in 0..(session[s].secret - 1) : Marked(s, n)

\* Once a logout has succeeded no refresh in flight brings the family back.
LoggedOutStaysOut == \A s \in loggedOut : ~Alive(s)

\* Rotation does not extend a family beyond its absolute lifetime, except by
\* the time between reading the clock and running the script.
AbsoluteLifetime ==
  \A s \in Sessions : Alive(s) => session[s].until <= session[s].absolute + MaxLag

\* What a family is worth at any moment: one chain of secrets, every spent one
\* known, ended by a logout and by its lifetime.
FamilySafe == SingleSuccessor /\ MarkersCoverFamily /\ LoggedOutStaysOut /\ AbsoluteLifetime

\* A password change cuts off the families opened before it: a refresh that
\* arrives after the change is never answered from one, although the rotation
\* comes before the look at the user row, a lost answer is fetched again, and a
\* slow login may open a family under the old version.  (A change that commits
\* between the look and the answer is later than the request; the pair sent is
\* refused where it is used.)
ChangeCutsOffFamilies ==
  [][\A h \in Handlers, a \in answers :
       AnswerRefresh(h) /\ a.kind = "login" /\ a.s = handler[h].s => a.version >= handler[h].seen]_vars

\* Of two concurrent changes from the same password only one takes effect, and
\* each change raises the version.
ChangesAreAuthorised ==
  [][<<password', authVersion'>> # <<password, authVersion>> =>
       /\ authVersion' = authVersion + 1
       /\ \E h \in Handlers : handler[h].cur = password /\ handler'[h].phase = "idle"]_vars

=============================================================================
