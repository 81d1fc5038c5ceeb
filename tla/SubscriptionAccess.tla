------------------------- MODULE SubscriptionAccess -------------------------
(***************************************************************************)
(* How an owner opens a route for notifications: the web asks for a        *)
(* challenge (createWebhookChallenge and its siblings), takes a signature  *)
(* for it, and activates a subscription; a telegram route needs a second   *)
(* proof, a link token that comes back from a chat.                        *)
(*                                                                         *)
(* One owner, many requests at once.  Every request is a sequence of       *)
(* statements at READ COMMITTED: what a transaction has updated is locked  *)
(* for the others and becomes visible to them when it commits.             *)
(***************************************************************************)
EXTENDS Naturals, FiniteSets

CONSTANTS
    Webhooks, Browsers, Telegrams,  \* the bindings ever created, by channel
    Chats,                          \* the chats a link token can come from
    Requests                        \* the requests of the owner in progress

Bindings == Webhooks \cup Browsers \cup Telegrams

ASSUME AccessAssumption ==
    /\ IsFiniteSet(Bindings)
    /\ Webhooks \cap Browsers = {}
    /\ Webhooks \cap Telegrams = {}
    /\ Browsers \cap Telegrams = {}

VARIABLES
    \* the rows of notification_bindings: status, which of challenge_hash and
    \* linkTokenHash is set, and whether that has expired
    status, proof, expired,
    active,             \* the active rows of subscriptions: <<kind, destination>>
    session,            \* the state of each request
    verified, linked,   \* how often each proof was accepted (history)
    overtaken           \* requests for a webhook during which another
                        \* webhook was activated (history)

rows == <<status, proof, expired>>
history == <<verified, linked, overtaken>>
vars == <<rows, active, session, history>>

-----------------------------------------------------------------------------
BindingStatus == {"none", "pending", "verified", "revoked"}

Proof == {"none", "challenge", "link"}

Kind == {"webhook", "browser", "telegram"}

Channel(b) ==
    CASE b \in Webhooks -> "webhook"
      [] b \in Browsers -> "browser"
      [] OTHER          -> "telegram"

(* Every challenge names a destination of its own; that of a telegram      *)
(* binding is "pending:<id>" until a chat is linked.                       *)
Subscriptions == (Kind \X Bindings) \cup ({"telegram"} \X Chats)

Stage == {"idle", "replace", "insert", "sign", "mark", "bind", "switch", "commit"}

(* A request: the binding it is about, the endpoint or the chat it came    *)
(* through, and the rows its open transaction has switched off.            *)
Idle == [stage |-> "idle"]

Request(stage, b, via, off) == [stage |-> stage, on |-> b, via |-> via, off |-> off]

At(u, stage) == session[u].stage = stage

Goto(u, next) == session' = [session EXCEPT ![u] = next]

(* The row lock of an update that is not committed yet. *)
Locked(b) ==
    \E u \in Requests :
        \/ At(u, "insert") /\ b \in session[u].off
        \/ session[u].stage \in {"switch", "commit"} /\ b = session[u].on

(* The rows the partial unique index on owner and channel covers. *)
Live(channel) ==
    {b \in Bindings : Channel(b) = channel /\ status[b] \in {"pending", "verified"}}

Init ==
    /\ status = [b \in Bindings |-> "none"]
    /\ proof = [b \in Bindings |-> "none"]
    /\ expired = {}
    /\ active = {}
    /\ session = [u \in Requests |-> Idle]
    /\ verified = [b \in Bindings |-> 0]
    /\ linked = [b \in Bindings |-> 0]
    /\ overtaken = {}

-----------------------------------------------------------------------------
(* Mutant: a verified webhook is not looked for. *)
AskAnyway(u, b) ==
    /\ At(u, "idle") /\ status[b] = "none"
    /\ \A v \in Requests : ~At(v, "idle") => session[v].on # b
    /\ Goto(u, Request("replace", b, Channel(b), {}))
    /\ UNCHANGED <<rows, active, history>>

(* A request for a challenge with a fresh id.  createWebhookChallenge      *)
(* first looks for a verified binding and refuses to replace it; the other *)
(* two channels replace what is there.                                     *)
Ask(u, b) ==
    /\ At(u, "idle") /\ status[b] = "none"
    /\ \A v \in Requests : ~At(v, "idle") => session[v].on # b
    /\ b \in Webhooks => \A c \in Live("webhook") : status[c] # "verified"
    /\ Goto(u, Request("replace", b, Channel(b), {}))
    /\ UNCHANGED <<rows, active, history>>

(* The update that revokes what is live.  It waits for locked rows and     *)
(* then looks at them again.                                               *)
Replace(u) ==
    LET channel == Channel(session[u].on) IN
    /\ At(u, "replace")
    /\ \A b \in Live(channel) : ~Locked(b)
    /\ Goto(u, Request("insert", session[u].on, session[u].via, Live(channel)))
    /\ UNCHANGED <<rows, active, history>>

(* Mutant: the schema has no unique index. *)
IndexAllowsAll(u) == TRUE

(* A challenge that was committed since the update ran is not in off. *)
IndexAllows(u) == Live(Channel(session[u].on)) \subseteq session[u].off

(* The insert, and the commit of both statements. *)
Insert(u) ==
    LET new == session[u].on IN
    /\ At(u, "insert") /\ IndexAllows(u)
    /\ status' = [b \in Bindings |->
           CASE b = new               -> "pending"
             [] b \in session[u].off  -> "revoked"
             [] OTHER                 -> status[b]]
    /\ proof' = [proof EXCEPT ![new] = "challenge"]
    /\ Goto(u, Idle)
    /\ overtaken' = overtaken \ {u}
    /\ UNCHANGED <<expired, active, verified, linked>>

-----------------------------------------------------------------------------
(* The endpoints find a challenge by its id.  The one for browsers and the *)
(* one for telegram look for their own channel, the one for webhooks does  *)
(* not.                                                                    *)
Serves(kind, b) == kind = "webhook" \/ kind = Channel(b)

(* Reads the challenge and compares hash and expiry; the call that checks  *)
(* the signature follows.  verifiedAt is taken here, so a challenge that   *)
(* expires during that call is still good.                                 *)
VerifyRead(u, b, kind) ==
    /\ At(u, "idle") /\ Serves(kind, b)
    /\ status[b] = "pending" /\ proof[b] = "challenge" /\ b \notin expired
    /\ Goto(u, Request("sign", b, kind, {}))
    /\ UNCHANGED <<rows, active, history>>

(* The requests for a webhook that had their look before now. *)
Asked == {v \in Requests : session[v].stage \in {"replace", "insert"} /\ session[v].on \in Webhooks}

(* Mutant: the challenge stays in the row. *)
ActivateKeepingProof(u) ==
    LET b == session[u].on IN
    /\ At(u, "sign") /\ session[u].via # "telegram" /\ ~Locked(b)
    /\ status[b] = "pending" /\ proof[b] = "challenge"
    /\ status' = [status EXCEPT ![b] = "verified"]
    /\ active' = active \cup {<<session[u].via, b>>}
    /\ verified' = [verified EXCEPT ![b] = @ + 1]
    /\ overtaken' = IF b \in Webhooks THEN overtaken \cup Asked ELSE overtaken
    /\ Goto(u, Idle)
    /\ UNCHANGED <<proof, expired, linked>>

(* activateWebhook and activateBrowser: one update consumes the challenge, *)
(* the subscription of its destination is inserted or switched on.         *)
Activate(u) ==
    LET b == session[u].on IN
    /\ At(u, "sign") /\ session[u].via # "telegram" /\ ~Locked(b)
    /\ status[b] = "pending" /\ proof[b] = "challenge"
    /\ status' = [status EXCEPT ![b] = "verified"]
    /\ proof' = [proof EXCEPT ![b] = "none"]
    /\ active' = active \cup {<<session[u].via, b>>}
    /\ verified' = [verified EXCEPT ![b] = @ + 1]
    /\ overtaken' = IF b \in Webhooks THEN overtaken \cup Asked ELSE overtaken
    /\ Goto(u, Idle)
    /\ UNCHANGED <<expired, linked>>

(* markTelegramProofVerified looks at the status in its select ... *)
MarkRead(u) ==
    LET b == session[u].on IN
    /\ At(u, "sign") /\ session[u].via = "telegram"
    /\ status[b] = "pending" /\ proof[b] = "challenge"
    /\ Goto(u, [session[u] EXCEPT !.stage = "mark"])
    /\ UNCHANGED <<rows, active, history>>

(* Mutant: the update finds the row by its id alone. *)
MarkById(u) ==
    LET b == session[u].on IN
    /\ At(u, "mark") /\ ~Locked(b)
    /\ proof' = [proof EXCEPT ![b] = "link"]
    /\ expired' = expired \ {b}
    /\ verified' = [verified EXCEPT ![b] = @ + 1]
    /\ Goto(u, Idle)
    /\ UNCHANGED <<status, active, linked, overtaken>>

(* ... but only at the hash in its update, which a revoked row keeps: the  *)
(* answer may be a link token that nothing accepts.                        *)
Mark(u) ==
    LET b == session[u].on IN
    /\ At(u, "mark") /\ ~Locked(b)
    /\ proof[b] = "challenge"
    /\ proof' = [proof EXCEPT ![b] = "link"]
    /\ expired' = expired \ {b}
    /\ verified' = [verified EXCEPT ![b] = @ + 1]
    /\ Goto(u, Idle)
    /\ UNCHANGED <<status, active, linked, overtaken>>

-----------------------------------------------------------------------------
(* activateTelegramLink, statement by statement: the token is found ...    *)
LinkRead(u, b, chat) ==
    /\ At(u, "idle")
    /\ status[b] = "pending" /\ proof[b] = "link" /\ b \notin expired
    /\ Goto(u, Request("bind", b, chat, {}))
    /\ UNCHANGED <<rows, active, history>>

(* Mutant: nobody looks at how many rows the update found. *)
LinkBindUnchecked(u) ==
    /\ At(u, "bind") /\ ~Locked(session[u].on)
    /\ Goto(u, [session[u] EXCEPT !.stage = "switch"])
    /\ UNCHANGED <<rows, active, history>>

(* ... the binding is updated, and locked ...                              *)
LinkBind(u) ==
    /\ At(u, "bind") /\ ~Locked(session[u].on)
    /\ status[session[u].on] = "pending"
    /\ Goto(u, [session[u] EXCEPT !.stage = "switch"])
    /\ UNCHANGED <<rows, active, history>>

(* Mutant: the other chats of the owner stay. *)
LinkSwitchOffNone(u) ==
    /\ At(u, "switch")
    /\ Goto(u, [session[u] EXCEPT !.stage = "commit"])
    /\ UNCHANGED <<rows, active, history>>

(* ... the owner's committed telegram subscriptions are switched off ...   *)
LinkSwitchOff(u) ==
    /\ At(u, "switch")
    /\ Goto(u, Request("commit", session[u].on, session[u].via,
                       active \cap ({"telegram"} \X Chats)))
    /\ UNCHANGED <<rows, active, history>>

(* ... and the chat's own is inserted or switched on. *)
LinkCommit(u) ==
    LET b == session[u].on IN
    /\ At(u, "commit")
    /\ status' = [status EXCEPT ![b] = "verified"]
    /\ proof' = [proof EXCEPT ![b] = "none"]
    /\ active' = (active \ session[u].off) \cup {<<"telegram", session[u].via>>}
    /\ linked' = [linked EXCEPT ![b] = @ + 1]
    /\ Goto(u, Idle)
    /\ UNCHANGED <<expired, verified, overtaken>>

-----------------------------------------------------------------------------
(* The request ends without effect: a condition above does not hold, the   *)
(* signature is wrong, a statement fails, or the process dies; an open     *)
(* transaction is rolled back.                                             *)
Abandon(u) ==
    /\ ~At(u, "idle")
    /\ Goto(u, Idle)
    /\ overtaken' = overtaken \ {u}
    /\ UNCHANGED <<rows, active, verified, linked>>

(* A challenge lives for ten minutes, a link token for ten more. *)
Expire(b) ==
    /\ status[b] = "pending" /\ b \notin expired
    /\ expired' = expired \cup {b}
    /\ UNCHANGED <<status, proof, active, session, history>>

(* A delivery learns that its destination is gone. *)
Deactivate(s) ==
    /\ s \in active /\ s[1] # "webhook"
    /\ active' = active \ {s}
    /\ UNCHANGED <<rows, session, history>>

Create(u) ==
    \/ \E b \in Bindings : Ask(u, b)
    \/ Replace(u)
    \/ Insert(u)

Verify(u) ==
    \/ \E b \in Bindings, kind \in Kind : VerifyRead(u, b, kind)
    \/ Activate(u)
    \/ MarkRead(u)
    \/ Mark(u)

Link(u) ==
    \/ \E b \in Telegrams, chat \in Chats : LinkRead(u, b, chat)
    \/ LinkBind(u)
    \/ LinkSwitchOff(u)
    \/ LinkCommit(u)

Next ==
    \/ \E u \in Requests : Create(u) \/ Verify(u) \/ Link(u) \/ Abandon(u)
    \/ \E b \in Bindings : Expire(b)
    \/ \E s \in Subscriptions : Deactivate(s)

Spec == Init /\ [][Next]_vars

-----------------------------------------------------------------------------
RequestType ==
    {Idle} \cup
    [stage : Stage \ {"idle"}, on : Bindings, via : Kind \cup Chats,
     off : (SUBSET Bindings) \cup (SUBSET ({"telegram"} \X Chats))]

(* The types; a verified binding keeps no proof, and only a telegram       *)
(* binding has a link token (challengeHash: null, linkTokenHash).          *)
TypeOK ==
    /\ status \in [Bindings -> BindingStatus]
    /\ proof \in [Bindings -> Proof]
    /\ \A b \in Bindings :
          /\ status[b] = "verified" => proof[b] = "none"
          /\ proof[b] = "link" => b \in Telegrams
    /\ expired \subseteq Bindings
    /\ active \subseteq Subscriptions
    /\ session \in [Requests -> RequestType]
    /\ verified \in [Bindings -> Nat] /\ linked \in [Bindings -> Nat]
    /\ overtaken \subseteq Asked

(* At most one challenge or verified binding per channel, although two     *)
(* requests for a challenge may both find nothing to revoke.               *)
OneLiveBinding ==
    \A channel \in Kind : Cardinality(Live(channel)) <= 1

(* Linking a chat replaces the one before it, also when two links race:    *)
(* notifications go to one telegram chat of the owner.                     *)
OneActiveTelegram ==
    Cardinality(active \cap ({"telegram"} \X Chats)) <= 1

(* "Atomic single-use challenge consumption" and the "one-time /start      *)
(* link": of any number of racing requests one is answered with success.   *)
SingleUse ==
    \A b \in Bindings : verified[b] <= 1 /\ linked[b] <= 1

(* A route is switched on only in the transaction that turns a pending     *)
(* binding into a verified one; a proof that was replaced while its        *)
(* request was under way, or a link token given out for it, opens none.    *)
OnlyPendingActivates ==
    [][/\ \A s \in active' \ active : \E b \in Bindings :
             status[b] = "pending" /\ status'[b] = "verified"
       /\ \A b \in Bindings : status[b] = "revoked" => status'[b] = "revoked"]_vars

(* A verified webhook is replaced only by a request for a challenge that   *)
(* was under way when a webhook was activated: never by one that came      *)
(* later, whatever was revoked, abandoned or verified in between.  ("A     *)
(* verified webhook binding already exists for this wallet" would have it  *)
(* never replaced; the look is a statement of its own, without a lock.)    *)
VerifiedWebhookYieldsToOverlap ==
    [][\A b \in Webhooks : status[b] = "verified" /\ status'[b] = "revoked" =>
          \E u \in overtaken : At(u, "insert") /\ b \in session[u].off
                              /\ status'[session[u].on] = "pending"]_vars
=============================================================================
