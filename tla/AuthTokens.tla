----------------------------- MODULE AuthTokens -----------------------------
(***************************************************************************)
(* Login sessions: pairs of access and refresh tokens, the refresh token   *)
(* rows and the user's cutoff in PostgreSQL, the blacklist and the cutoff  *)
(* with their time to live in Redis, and the requests that work on them.   *)
(* A request is served in steps, one for each access to a store; between   *)
(* two steps other requests run, time passes, or the request fails: the    *)
(* stores keep what was committed or set until then.                       *)
(*                                                                         *)
(* Time is counted in ticks, TicksPerSecond of them to a second, because   *)
(* the code truncates some times to seconds and not others.                *)
(***************************************************************************)
EXTENDS Integers, FiniteSets, Sequences

CONSTANTS Users,
          Requests,        \* requests that can be served at the same time
          None,
          TicksPerSecond,
          AccessLife,      \* seconds, jwt_access_token_expire_minutes
          RefreshLife,     \* seconds, jwt_refresh_token_expire_days
          MaxPairs,        \* bound: token pairs ever issued
          MaxTime          \* bound: ticks

ASSUME AuthAssumption ==
  /\ TicksPerSecond \in Nat \ {0} /\ AccessLife \in Nat \ {0} /\ RefreshLife \in Nat \ {0}
  /\ MaxPairs \in Nat /\ MaxTime \in Nat
  /\ None \notin Nat

VARIABLES now,      \* the clock, in ticks
          pairs,    \* the token pairs issued so far, each with its refresh token row
          revoked,  \* refresh_tokens_revoked_at of each user
          black,    \* the tick at which the blacklist entry of a pair expires
          cut,      \* the cutoff of each user in Redis: a second, and its expiry
          req,      \* what each request is doing
          ended,    \* sessions whose logout has returned without an overlap
          raced     \* pairs made from a refresh token that was revoked meanwhile

vars == <<now, pairs, revoked, black, cut, req, ended, raced>>

-----------------------------------------------------------------------------
(* Tokens                                                                  *)

Second(t) == t \div TicksPerSecond

Ticks(seconds) == seconds * TicksPerSecond

\* The exp claims, whole seconds.
AccessExp(n) == Second(pairs[n].issued) + AccessLife

RefreshExp(n) == Second(pairs[n].issued) + RefreshLife

Blacklisted(n) == black[n] > 0

\* A slip: a token issued in the second of the cutoff is let through.
UserTokenInvalidBefore(n) ==
  LET c == cut[pairs[n].user] IN c.until > 0 /\ Second(pairs[n].issued) < c.second

\* Issued in the second of the cutoff counts as issued before it.
UserTokenInvalid(n) ==
  LET c == cut[pairs[n].user] IN c.until > 0 /\ Second(pairs[n].issued) <= c.second

\* What get_current_user demands of an access token.
Authorized(n) ==
  /\ now < Ticks(AccessExp(n))
  /\ ~Blacklisted(n)
  /\ ~UserTokenInvalid(n)

\* What refresh demands of the row of a refresh token.
ValidRow(n) == now < Ticks(RefreshExp(n)) /\ ~pairs[n].revoked

\* The issue time is a whole second, the time of the revocation is not.
RevokedForUser(n) ==
  LET at == revoked[pairs[n].user] IN at # None /\ Ticks(Second(pairs[n].issued)) < at

\* A row is stored with each pair; its session is the pair its login issued.
NewPair(u, session, delivered) ==
  [user |-> u, session |-> session, issued |-> now, delivered |-> delivered,
   revoked |-> FALSE, by |-> None]

Delivered == {n \in DOMAIN pairs : pairs[n].delivered}

\* The tokens a client of the session holds: those of the last answer it got.
Current(n) ==
  \A m \in Delivered : pairs[m].session = pairs[n].session => m <= n

-----------------------------------------------------------------------------
(* Requests                                                                *)

Idle == [step |-> "idle"]

\* Requests of the user that are being served, p apart.
Others(p, u) == {q \in Requests \ {p} : req[q] # Idle /\ req[q].user = u}

\* A request of the client that holds pair n.  A logout also has the refresh
\* token sent along, the time it takes as cutoff, and whether it is everywhere.
NewRequest(step, n, refresh, at, all, alone) ==
  [step |-> step, pair |-> n, user |-> pairs[n].user, alone |-> alone,
   refresh |-> refresh, at |-> at, all |-> all]

\* A new request overlaps every request of its user that is being served.
Begin(p, step, n, refresh, at, all) ==
  LET others == Others(p, pairs[n].user)
  IN  req' = [q \in Requests |->
                IF q = p THEN NewRequest(step, n, refresh, at, all, others = {})
                ELSE IF q \in others THEN [req[q] EXCEPT !.alone = FALSE]
                ELSE req[q]]

Goto(p, step) == req' = [req EXCEPT ![p].step = step]

Finish(p) == req' = [req EXCEPT ![p] = Idle]

NoCutoff == [second |-> 0, until |-> 0]

Init ==
  /\ now = 0 /\ pairs = <<>>
  /\ revoked = [u \in Users |-> None]
  /\ black = [n \in 1 .. MaxPairs |-> 0]
  /\ cut = [u \in Users |-> NoCutoff]
  /\ req = [p \in Requests |-> Idle]
  /\ ended = {} /\ raced = {}

\* Redis drops an entry when its time to live is over.
Tick ==
  /\ now < MaxTime
  /\ now' = now + 1
  /\ black' = [n \in DOMAIN black |-> IF black[n] > now' THEN black[n] ELSE 0]
  /\ cut' = [u \in Users |-> IF cut[u].until > now' THEN cut[u] ELSE NoCutoff]
  /\ UNCHANGED <<pairs, revoked, req, ended, raced>>

\* login checks the password and commits one new row.
Login(u) ==
  /\ Len(pairs) < MaxPairs
  /\ pairs' = Append(pairs, NewPair(u, Len(pairs) + 1, TRUE))
  /\ UNCHANGED <<now, revoked, black, cut, req, ended, raced>>

\* A refused request changes nothing; so only requests that pass are begun.
RefreshReadsRow(p, n) ==
  /\ req[p] = Idle
  /\ ValidRow(n)
  /\ Begin(p, "user", n, None, None, FALSE)
  /\ UNCHANGED <<now, pairs, revoked, black, cut, ended, raced>>

RefreshReadsUser(p) ==
  /\ req[p].step = "user"
  /\ IF RevokedForUser(req[p].pair) THEN Finish(p) ELSE Goto(p, "rotate")
  /\ UNCHANGED <<now, pairs, revoked, black, cut, ended, raced>>

\* A slip: the successor is inserted, the old row is not revoked.
RotateLeavingOld(p) ==
  LET old == req[p].pair IN
  /\ req[p].step = "rotate"
  /\ Len(pairs) < MaxPairs
  /\ \E delivered \in BOOLEAN :
       pairs' = Append([pairs EXCEPT ![old].by = Len(pairs) + 1],
                       NewPair(pairs[old].user, pairs[old].session, delivered))
  /\ Finish(p)
  /\ UNCHANGED <<now, revoked, black, cut, ended, raced>>

\* One transaction: the successor is inserted and the row read before is
\* written as revoked, whatever it says by now.  The answer may be lost.
Rotate(p) ==
  LET old == req[p].pair
      new == Len(pairs) + 1 IN
  /\ req[p].step = "rotate"
  /\ Len(pairs) < MaxPairs
  /\ \E delivered \in BOOLEAN :
       pairs' = Append([pairs EXCEPT ![old].revoked = TRUE, ![old].by = new],
                       NewPair(pairs[old].user, pairs[old].session, delivered))
  /\ raced' = IF pairs[old].revoked THEN raced \cup {new} ELSE raced
  /\ Finish(p)
  /\ UNCHANGED <<now, revoked, black, cut, ended>>

\* The gate of an authenticated endpoint, then its body; the client sends the
\* refresh token it holds, or none.
LogoutBegins(p, n) ==
  /\ req[p] = Idle
  /\ Authorized(n)
  /\ \E m \in Delivered \cup {None} :
       /\ m # None => pairs[m].session = pairs[n].session /\ Current(m)
       /\ Begin(p, "blacklist", n, m, None, FALSE)
  /\ UNCHANGED <<now, pairs, revoked, black, cut, ended, raced>>

LogoutAllBegins(p, n) ==
  /\ req[p] = Idle
  /\ Authorized(n)
  /\ Begin(p, "revoke all", n, None, now, TRUE)
  /\ UNCHANGED <<now, pairs, revoked, black, cut, ended, raced>>

\* One transaction: the user's cutoff and every row not revoked yet.
RevokeAll(p) ==
  LET u == req[p].user IN
  /\ req[p].step = "revoke all"
  /\ revoked' = [revoked EXCEPT ![u] = req[p].at]
  /\ pairs' = [n \in DOMAIN pairs |->
                 [pairs[n] EXCEPT !.revoked = @ \/ pairs[n].user = u]]
  /\ Goto(p, "blacklist")
  /\ UNCHANGED <<now, black, cut, ended, raced>>

\* The time to live is cut to whole seconds; without any left nothing is set.
\* logout takes the time of its cutoff now, logout_all took it at its start.
Blacklist(p) ==
  LET n == req[p].pair
      ttl == Second(Ticks(AccessExp(n)) - now) IN
  /\ req[p].step = "blacklist"
  /\ black' = IF ttl > 0 THEN [black EXCEPT ![n] = now + Ticks(ttl)] ELSE black
  /\ req' = [req EXCEPT ![p].step = "cutoff", ![p].at = IF @ = None THEN now ELSE @]
  /\ UNCHANGED <<now, pairs, revoked, cut, ended, raced>>

\* The sessions a finished logout has ended: its own, if the refresh token
\* came along, or, for logout everywhere, all those from before it.
Ended(p) ==
  LET r == req[p] IN
  IF ~r.alone THEN {}
  ELSE IF r.refresh # None THEN {pairs[r.pair].session}
  ELSE {pairs[n].session : n \in {m \in DOMAIN pairs :
          r.all /\ pairs[m].user = r.user /\ pairs[m].revoked /\ pairs[m].issued <= r.at}}

Cutoff(p) ==
  LET r == req[p] IN
  /\ r.step = "cutoff"
  /\ cut' = [cut EXCEPT ![r.user] =
               [second |-> Second(r.at), until |-> now + Ticks(AccessLife)]]
  /\ IF r.refresh # None THEN Goto(p, "revoke row") /\ UNCHANGED ended
     ELSE Finish(p) /\ ended' = ended \cup Ended(p)
  /\ UNCHANGED <<now, pairs, revoked, black, raced>>

\* _revoke_refresh_token: a row that is revoked already is left alone.
RevokeRow(p) ==
  LET m == req[p].refresh IN
  /\ req[p].step = "revoke row"
  /\ pairs' = IF now < Ticks(RefreshExp(m))
              THEN [pairs EXCEPT ![m].revoked = TRUE] ELSE pairs
  /\ ended' = ended \cup Ended(p)
  /\ Finish(p)
  /\ UNCHANGED <<now, revoked, black, cut, raced>>

\* A store is unavailable, or the process stops: the request ends here.
Fail(p) ==
  /\ req[p] # Idle
  /\ Finish(p)
  /\ UNCHANGED <<now, pairs, revoked, black, cut, ended, raced>>

Serve(p) ==
  \/ \E n \in Delivered : RefreshReadsRow(p, n) \/ LogoutBegins(p, n) \/ LogoutAllBegins(p, n)
  \/ RefreshReadsUser(p) \/ Rotate(p)
  \/ RevokeAll(p) \/ Blacklist(p) \/ Cutoff(p) \/ RevokeRow(p)
  \/ Fail(p)

Next == Tick \/ (\E u \in Users : Login(u)) \/ (\E p \in Requests : Serve(p))

Spec == Init /\ [][Next]_vars

-----------------------------------------------------------------------------
(* Properties                                                              *)

Pairs == DOMAIN pairs

PairRecord == [user : Users, session : 1 .. MaxPairs, issued : 0 .. MaxTime,
               delivered : BOOLEAN, revoked : BOOLEAN, by : 1 .. MaxPairs \cup {None}]

Request == [step : {"user", "rotate", "revoke all", "blacklist", "cutoff", "revoke row"},
            pair : 1 .. MaxPairs, user : Users, alone : BOOLEAN,
            refresh : 1 .. MaxPairs \cup {None}, at : 0 .. MaxTime \cup {None},
            all : BOOLEAN]

\* Every pair has its row; a row that names its successor is revoked, and the
\* successor was issued later, in the same session.
AuthTypeOK ==
  /\ now \in 0 .. MaxTime
  /\ pairs \in Seq(PairRecord) /\ Len(pairs) <= MaxPairs
  /\ \A n \in Pairs :
       /\ pairs[n].session <= n /\ pairs[n].issued <= now
       /\ pairs[n].by # None =>
            /\ pairs[n].revoked /\ pairs[n].by \in n + 1 .. Len(pairs)
            /\ pairs[pairs[n].by].session = pairs[n].session
  /\ revoked \in [Users -> 0 .. MaxTime \cup {None}]
  /\ black \in [1 .. MaxPairs -> Nat]
  /\ cut \in [Users -> [second : Nat, until : Nat]]
  /\ req \in [Requests -> {Idle} \cup Request]
  /\ \A p \in Requests : req[p] # Idle =>
       /\ req[p].pair \in Pairs /\ req[p].user = pairs[req[p].pair].user
       /\ req[p].refresh \in Delivered \cup {None}
  /\ ended \cup raced \subseteq Pairs

(***************************************************************************)
(* Logging out ends the session: once a logout that brought the session's  *)
(* refresh token, or a logout everywhere, has returned, no access token of *)
(* the session that a client holds is accepted any more, whatever happens  *)
(* to the entries in Redis as they expire, and none of its refresh tokens  *)
(* can be exchanged.  This is claimed for logouts that no other request of *)
(* the user overlapped, and for sessions in which no two refreshes have    *)
(* raced: the second refresh token of a race survives the logout.          *)
(***************************************************************************)
Unraced(s) == \A k \in raced : pairs[k].session # s

LogoutEndsSession ==
  \A n \in Delivered : pairs[n].session \in ended /\ Unraced(pairs[n].session) =>
    ~Authorized(n) /\ ~ValidRow(n)

(***************************************************************************)
(* Rotation replaces: a session has one refresh token that is not revoked, *)
(* and one more for each time two refreshes read the same row before       *)
(* either had revoked it.  Lost answers, logouts and failures in between   *)
(* never add one.                                                          *)
(***************************************************************************)
SessionsGrowOnlyByRaces ==
  \A s \in Pairs :
    Cardinality({n \in Pairs : pairs[n].session = s /\ ~pairs[n].revoked})
      <= 1 + Cardinality({n \in raced : pairs[n].session = s})

-----------------------------------------------------------------------------
(***************************************************************************)
(* The inductive strengthening of the invariants above.                    *)
(***************************************************************************)

Active(p) == req[p] # Idle

\* A session has one user, whose first pair gave it its name.
SessionInv == \A n \in Pairs : pairs[n].user = pairs[pairs[n].session].user

\* Unless refreshes raced, all but the last refresh token are revoked.
ChainInv ==
  \A n, m \in Pairs :
    n < m /\ pairs[n].session = pairs[m].session /\ Unraced(pairs[n].session)
      => pairs[n].revoked

\* Each kind of request has its steps, and what it needs in them.
StepInv ==
  \A p \in Requests : Active(p) =>
    LET r == req[p] IN
    /\ r.step \in {"user", "rotate"} => ~r.all /\ r.refresh = None
    /\ r.step = "revoke all" => r.all
    /\ r.step = "revoke row" => r.refresh # None
    /\ r.step = "cutoff" \/ r.step = "revoke row" \/ r.all => r.at # None
    /\ r.at # None => r.at <= now
    /\ r.all => r.refresh = None
    /\ r.refresh # None => pairs[r.refresh].session = pairs[r.pair].session

\* Requests of one user that are served together know of each other.
AloneInv ==
  \A p, q \in Requests :
    p # q /\ Active(p) /\ Active(q) /\ req[p].user = req[q].user => ~req[p].alone

\* The cutoff in Redis covers access token n until it expires.
CutOff(n) ==
  \/ Ticks(AccessExp(n)) <= now
  \/ LET c == cut[pairs[n].user] IN
     c.second >= Second(pairs[n].issued) /\ c.until >= Ticks(AccessExp(n))

\* A logout nobody overlaps: nothing is issued in the session meanwhile, so
\* its refresh token stays the last, and its cutoff covers the session.
LogoutInv ==
  \A p \in Requests : Active(p) /\ req[p].alone /\ req[p].refresh # None =>
    \A n \in Delivered : pairs[n].session = pairs[req[p].pair].session =>
      /\ n <= req[p].refresh
      /\ req[p].at # None => pairs[n].issued <= req[p].at
      /\ req[p].step = "revoke row" => CutOff(n)

\* The same for all sessions of the user, each revoked as a whole.
LogoutAllInv ==
  \A p \in Requests : Active(p) /\ req[p].alone /\ req[p].all =>
    \A n, m \in Pairs :
      pairs[n].user = req[p].user /\ pairs[n].session = pairs[m].session =>
        /\ pairs[n].issued <= req[p].at => pairs[m].issued <= req[p].at
        /\ req[p].step # "revoke all" /\ pairs[n].revoked => pairs[m].revoked

\* Nothing brings an ended session back: no token of it is good, no refresh
\* of it is under way, and no later logout moves the cutoff before it.
EndedInv ==
  \A n \in Pairs : pairs[n].session \in ended /\ Unraced(pairs[n].session) =>
    /\ pairs[n].delivered => ~ValidRow(n) /\ CutOff(n)
    /\ \A q \in Requests : Active(q) /\ req[q].user = pairs[n].user =>
         /\ req[q].step \in {"user", "rotate"} =>
              pairs[req[q].pair].session # pairs[n].session
         /\ req[q].at # None /\ pairs[n].delivered => pairs[n].issued <= req[q].at

AuthInv == /\ AuthTypeOK /\ SessionInv /\ ChainInv /\ StepInv /\ AloneInv
           /\ LogoutInv /\ LogoutAllInv /\ EndedInv

=============================================================================
