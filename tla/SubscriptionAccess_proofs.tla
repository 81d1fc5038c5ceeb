---------------------- MODULE SubscriptionAccess_proofs ----------------------
(***************************************************************************)
(* Proofs about SubscriptionAccess, for any numbers of bindings, chats and *)
(* requests.                                                               *)
(***************************************************************************)
EXTENDS SubscriptionAccess, FiniteSetTheorems, TLAPS

-----------------------------------------------------------------------------
(* Requests: what a step leaves in a session.                              *)

RowTypes ==
    /\ status \in [Bindings -> BindingStatus]
    /\ proof \in [Bindings -> Proof]
    /\ expired \subseteq Bindings

SessionType == session \in [Requests -> RequestType]

TelegramRows == {"telegram"} \X Chats

(* What a transaction may have switched off: bindings, or subscriptions.   *)
Offs == (SUBSET Bindings) \cup (SUBSET TelegramRows)

LEMMA RequestTyped ==
  ASSUME NEW stage \in Stage \ {"idle"}, NEW b \in Bindings, NEW via \in Kind \cup Chats,
         NEW off \in Offs
  PROVE  Request(stage, b, via, off) \in RequestType
<1>1. Request(stage, b, via, off)
        \in [stage : Stage \ {"idle"}, on : Bindings, via : Kind \cup Chats, off : Offs]
  BY SMT DEF Request
<1> QED
  BY <1>1, Zenon DEF RequestType, Offs, TelegramRows

LEMMA IdleRequest == Idle \in RequestType /\ Idle.stage = "idle"
<1>1. Idle \in RequestType
  BY Zenon DEF RequestType
<1>2. Idle.stage = "idle"
  BY SMT DEF Idle
<1> QED
  BY <1>1, <1>2

LEMMA BusyRequest ==
  ASSUME SessionType, NEW u \in Requests, session[u].stage # "idle"
  PROVE  /\ session[u].stage \in Stage \ {"idle"} /\ session[u].on \in Bindings
         /\ session[u].via \in Kind \cup Chats /\ session[u].off \in Offs
<1> DEFINE r == session[u]
           R == [stage : Stage \ {"idle"}, on : Bindings, via : Kind \cup Chats, off : Offs]
<1>1. r \in RequestType
  BY DEF SessionType
<1>2. r # Idle
  BY IdleRequest, Zenon
<1>3. r \in R
  BY <1>1, <1>2, Zenon DEF RequestType, Offs, TelegramRows
<1> HIDE DEF r
<1>4. r.stage \in Stage \ {"idle"} /\ r.on \in Bindings /\ r.via \in Kind \cup Chats /\ r.off \in Offs
  BY <1>3, SMT
<1> QED
  BY <1>4 DEF r

(* A busy request in another stage. *)
LEMMA RequestMoves ==
  ASSUME SessionType, NEW u \in Requests, session[u].stage # "idle",
         NEW next \in Stage \ {"idle"}
  PROVE  [session[u] EXCEPT !.stage = next]
            = Request(next, session[u].on, session[u].via, session[u].off)
<1> DEFINE r == session[u]
           R == [stage : Stage \ {"idle"}, on : Bindings, via : Kind \cup Chats, off : Offs]
<1>1. r \in RequestType
  BY DEF SessionType
<1>2. r # Idle
  BY IdleRequest, Zenon
<1>3. r \in R
  BY <1>1, <1>2, Zenon DEF RequestType, Offs, TelegramRows
<1> HIDE DEF r
<1>4. [r EXCEPT !.stage = next] = [stage |-> next, on |-> r.on, via |-> r.via, off |-> r.off]
  BY <1>3, SMT
<1> QED
  BY <1>4, Zenon DEF r, Request

LEMMA GotoStep ==
  ASSUME SessionType, NEW u \in Requests, NEW next \in RequestType, Goto(u, next)
  PROVE  /\ SessionType'
         /\ session'[u] = next
         /\ \A v \in Requests : v # u => session'[v] = session[v]
  BY Zenon DEF SessionType, Goto

(* The request of u is now the given one; the others are what they were.   *)
Becomes(u, stage, b, via, off) ==
    /\ session'[u].stage = stage /\ session'[u].on = b
    /\ session'[u].via = via /\ session'[u].off = off
    /\ \A v \in Requests : v # u => session'[v] = session[v]

Leaves(u) ==
    /\ session'[u].stage = "idle"
    /\ \A v \in Requests : v # u => session'[v] = session[v]

LEMMA GotoRequest ==
  ASSUME SessionType, NEW u \in Requests, NEW stage \in Stage \ {"idle"}, NEW b \in Bindings,
         NEW via \in Kind \cup Chats, NEW off \in Offs, Goto(u, Request(stage, b, via, off))
  PROVE  SessionType' /\ Becomes(u, stage, b, via, off)
<1> DEFINE r == Request(stage, b, via, off)
<1>1. r \in RequestType
  BY RequestTyped, Zenon
<1>2. r.stage = stage /\ r.on = b /\ r.via = via /\ r.off = off
  BY SMT DEF Request
<1> HIDE DEF r
<1>3. SessionType' /\ session'[u] = r /\ \A v \in Requests : v # u => session'[v] = session[v]
  BY <1>1, GotoStep, Zenon DEF r
<1> QED
  BY <1>2, <1>3, Zenon DEF Becomes

LEMMA GotoIdle ==
  ASSUME SessionType, NEW u \in Requests, Goto(u, Idle)
  PROVE  SessionType' /\ Leaves(u)
  BY IdleRequest, GotoStep, Zenon DEF Leaves

-----------------------------------------------------------------------------
(* What each step does to the request it serves.                           *)

(* The stages a request of a channel comes through, and how it came.       *)
Served ==
    \A u \in Requests :
        /\ At(u, "sign") => session[u].via \in Kind /\ Serves(session[u].via, session[u].on)
        /\ At(u, "mark") => session[u].on \in Telegrams
        /\ session[u].stage \in {"bind", "switch", "commit"} =>
              session[u].on \in Telegrams /\ session[u].via \in Chats

LEMMA ChannelOf ==
  /\ \A b : Channel(b) \in Kind
  /\ \A b \in Webhooks : Channel(b) = "webhook"
  /\ \A b \in Telegrams : Channel(b) = "telegram" /\ b \notin Webhooks
  /\ \A b \in Bindings : Channel(b) = "telegram" => b \in Telegrams
  /\ \A b \in Bindings : Channel(b) = "webhook" => b \in Webhooks
  BY AccessAssumption, SMT DEF Channel, Kind, Bindings

LEMMA LiveBindings == \A channel : Live(channel) \in SUBSET Bindings /\ Live(channel) \in Offs
  BY Zenon DEF Live, Offs

LEMMA AskStep ==
  ASSUME SessionType, NEW u \in Requests, NEW b \in Bindings, Ask(u, b)
  PROVE  SessionType' /\ Becomes(u, "replace", b, Channel(b), {})
<1>1. {} \in Offs /\ Channel(b) \in Kind \cup Chats /\ "replace" \in Stage \ {"idle"}
  BY ChannelOf, SMT DEF Offs, Stage
<1> QED
  BY <1>1, GotoRequest DEF Ask

LEMMA ReplaceStep ==
  ASSUME SessionType, NEW u \in Requests, Replace(u)
  PROVE  /\ SessionType' /\ session[u].on \in Bindings
         /\ Becomes(u, "insert", session[u].on, session[u].via, Live(Channel(session[u].on)))
<1>1. session[u].stage # "idle" /\ "insert" \in Stage \ {"idle"}
  BY SMT DEF Replace, At, Stage
<1>2. session[u].on \in Bindings /\ session[u].via \in Kind \cup Chats
  BY <1>1, BusyRequest
<1> QED
  BY <1>1, <1>2, LiveBindings, GotoRequest DEF Replace

LEMMA VerifyReadStep ==
  ASSUME SessionType, NEW u \in Requests, NEW b \in Bindings, NEW kind \in Kind,
         VerifyRead(u, b, kind)
  PROVE  SessionType' /\ Becomes(u, "sign", b, kind, {})
<1>1. {} \in Offs /\ kind \in Kind \cup Chats /\ "sign" \in Stage \ {"idle"}
  BY SMT DEF Offs, Stage
<1> QED
  BY <1>1, GotoRequest DEF VerifyRead

LEMMA MarkReadStep ==
  ASSUME SessionType, NEW u \in Requests, MarkRead(u)
  PROVE  /\ SessionType' /\ session[u].on \in Bindings
         /\ Becomes(u, "mark", session[u].on, session[u].via, session[u].off)
<1>1. session[u].stage # "idle" /\ "mark" \in Stage \ {"idle"}
  BY SMT DEF MarkRead, At, Stage
<1>2. /\ session[u].on \in Bindings /\ session[u].via \in Kind \cup Chats
      /\ session[u].off \in Offs
  BY <1>1, BusyRequest
<1>3. Goto(u, Request("mark", session[u].on, session[u].via, session[u].off))
  BY <1>1, RequestMoves DEF MarkRead
<1> QED
  BY <1>1, <1>2, <1>3, GotoRequest

LEMMA LinkReadStep ==
  ASSUME SessionType, NEW u \in Requests, NEW b \in Telegrams, NEW chat \in Chats,
         LinkRead(u, b, chat)
  PROVE  SessionType' /\ Becomes(u, "bind", b, chat, {})
<1>1. /\ {} \in Offs /\ chat \in Kind \cup Chats /\ "bind" \in Stage \ {"idle"}
      /\ b \in Bindings
  BY SMT DEF Offs, Stage, Bindings
<1> QED
  BY <1>1, GotoRequest DEF LinkRead

LEMMA LinkBindStep ==
  ASSUME SessionType, NEW u \in Requests, LinkBind(u)
  PROVE  /\ SessionType' /\ session[u].on \in Bindings
         /\ Becomes(u, "switch", session[u].on, session[u].via, session[u].off)
<1>1. session[u].stage # "idle" /\ "switch" \in Stage \ {"idle"}
  BY SMT DEF LinkBind, At, Stage
<1>2. /\ session[u].on \in Bindings /\ session[u].via \in Kind \cup Chats
      /\ session[u].off \in Offs
  BY <1>1, BusyRequest
<1>3. Goto(u, Request("switch", session[u].on, session[u].via, session[u].off))
  BY <1>1, RequestMoves DEF LinkBind
<1> QED
  BY <1>1, <1>2, <1>3, GotoRequest

LEMMA LinkSwitchOffStep ==
  ASSUME SessionType, NEW u \in Requests, LinkSwitchOff(u)
  PROVE  /\ SessionType' /\ session[u].on \in Bindings
         /\ Becomes(u, "commit", session[u].on, session[u].via,
                    active \cap TelegramRows)
<1>1. session[u].stage # "idle" /\ "commit" \in Stage \ {"idle"}
  BY SMT DEF LinkSwitchOff, At, Stage
<1>2. session[u].on \in Bindings /\ session[u].via \in Kind \cup Chats
  BY <1>1, BusyRequest
<1>3. active \cap TelegramRows \in Offs
  BY Zenon DEF Offs
<1> QED
  BY <1>1, <1>2, <1>3, GotoRequest DEF LinkSwitchOff, TelegramRows

LEMMA EndStep ==
  ASSUME SessionType, NEW u \in Requests,
         Insert(u) \/ Activate(u) \/ Mark(u) \/ LinkCommit(u) \/ Abandon(u)
  PROVE  SessionType' /\ Leaves(u) /\ session[u].on \in Bindings
<1>1. Goto(u, Idle)
  BY Zenon DEF Insert, Activate, Mark, LinkCommit, Abandon
<1>2. session[u].stage # "idle"
  BY SMT DEF Insert, Activate, Mark, LinkCommit, Abandon, At
<1> QED
  BY <1>1, <1>2, GotoIdle, BusyRequest

-----------------------------------------------------------------------------
(* What a request relies on while others run between its statements.       *)

Holding == {"switch", "commit"}

(* The binding of a request for a challenge exists for nobody else yet.    *)
Fresh ==
    \A u \in Requests : session[u].stage \in {"replace", "insert"} =>
        /\ status[session[u].on] = "none"
        /\ \A v \in Requests :
              v # u /\ session[v].stage # "idle" => session[v].on # session[u].on

(* What it is about to revoke exists, on its own channel.                  *)
OffExists ==
    \A u \in Requests : At(u, "insert") =>
        \A b \in session[u].off :
            b \in Bindings /\ status[b] # "none" /\ Channel(b) = Channel(session[u].on)

(* The binding a link has updated is pending, and no other open            *)
(* transaction has updated it.                                             *)
LockPending ==
    \A u \in Requests : session[u].stage \in Holding => status[session[u].on] = "pending"

LockAlone ==
    \A u, v \in Requests :
        session[u].stage \in Holding /\ session[v].stage \in Holding
            /\ session[u].on = session[v].on => u = v

LockApart ==
    \A u, v \in Requests :
        At(u, "insert") /\ session[v].stage \in Holding => session[v].on \notin session[u].off

SessionInv ==
    SessionType /\ Served /\ Fresh /\ OffExists /\ LockPending /\ LockAlone /\ LockApart

LEMMA SessionStill ==
  ASSUME SessionInv, session' = session, status' = status
  PROVE  SessionInv'
  BY Zenon DEF SessionInv, SessionType, Served, Fresh, OffExists, LockPending, LockAlone, LockApart, At

(* The end of a request that leaves the others what they rely on.          *)
LEMMA SessionEnds ==
  ASSUME SessionInv, SessionType', NEW u \in Requests, Leaves(u),
         \A v \in Requests : v # u =>
             /\ session[v].stage \in {"replace", "insert"} => status'[session[v].on] = "none"
             /\ session[v].stage \in Holding => status'[session[v].on] = "pending",
         \A b \in Bindings : status[b] # "none" => status'[b] # "none"
  PROVE  SessionInv'
<1>1. Served'
  BY SMT DEF SessionInv, Served, Leaves, At
<1>2. Fresh'
  BY SMT DEF SessionInv, Fresh, Leaves
<1>3. OffExists'
  BY Zenon DEF SessionInv, OffExists, Leaves, At, Channel
<1>4. LockPending' /\ LockAlone' /\ LockApart'
  BY SMT DEF SessionInv, LockPending, LockAlone, LockApart, Leaves, Holding, At
<1> QED
  BY <1>1, <1>2, <1>3, <1>4 DEF SessionInv

(* A request that takes its next step before any row changes.              *)
LEMMA SessionBecomes ==
  ASSUME SessionInv, SessionType', status' = status, NEW u \in Requests,
         NEW stage \in Stage \ {"idle"}, NEW b \in Bindings, NEW via, NEW off,
         Becomes(u, stage, b, via, off),
         \* as in Served
         stage = "sign" => via \in Kind /\ Serves(via, b),
         stage = "mark" => b \in Telegrams,
         stage \in {"bind", "switch", "commit"} => b \in Telegrams /\ via \in Chats,
         \* as in Fresh
         \/ stage \in {"replace", "insert"} /\ status[b] = "none"
            /\ \A v \in Requests : v # u /\ session[v].stage # "idle" => session[v].on # b
         \/ stage \notin {"replace", "insert"} /\ status[b] # "none",
         \* as in OffExists and LockApart
         stage = "insert" =>
             \A c \in off :
                 /\ c \in Bindings /\ status[c] # "none" /\ Channel(c) = Channel(b)
                 /\ \A v \in Requests : session[v].stage \in Holding => session[v].on # c,
         \* as in the other two
         stage \in Holding =>
             /\ status[b] = "pending"
             /\ \A v \in Requests : v # u => ~(session[v].stage \in Holding /\ session[v].on = b)
             /\ \A v \in Requests : v # u /\ At(v, "insert") => b \notin session[v].off
  PROVE  SessionInv'
<1>1. Served'
  BY SMT DEF SessionInv, Served, Becomes, At, Serves
<1>2. Fresh'
  BY SMT DEF SessionInv, Fresh, Becomes
<1>3. OffExists'
  <2> SUFFICES ASSUME NEW v \in Requests, session'[v].stage = "insert", NEW c \in session'[v].off
               PROVE  c \in Bindings /\ status[c] # "none" /\ Channel(c) = Channel(session'[v].on)
    BY Zenon DEF OffExists, At
  <2>1. CASE v = u
    BY <2>1, Zenon DEF Becomes
  <2>2. CASE v # u
    BY <2>2, Zenon DEF Becomes, SessionInv, OffExists, At
  <2> QED
    BY <2>1, <2>2
<1>4. LockPending' /\ LockAlone'
  BY SMT DEF SessionInv, LockPending, LockAlone, Becomes, Holding, At
<1>5. LockApart'
  BY SMT DEF SessionInv, LockApart, Becomes, Holding, At
<1> QED
  BY <1>1, <1>2, <1>3, <1>4, <1>5 DEF SessionInv

LEMMA NotLocked ==
  ASSUME NEW b, ~Locked(b), NEW v \in Requests
  PROVE  /\ At(v, "insert") => b \notin session[v].off
         /\ ~(session[v].stage \in Holding /\ session[v].on = b)
  BY Zenon DEF Locked, Holding

LEMMA InsertRows ==
  ASSUME SessionInv, NEW u \in Requests, Insert(u), NEW b \in Bindings
  PROVE  /\ b = session[u].on => status'[b] = "pending"
         /\ b # session[u].on /\ b \in session[u].off => status'[b] = "revoked"
         /\ b # session[u].on /\ b \notin session[u].off => status'[b] = status[b]
<1> DEFINE new == session[u].on
           off == session[u].off
<1>1. status' = [c \in Bindings |-> CASE c = new  -> "pending"
                                     [] c \in off -> "revoked"
                                     [] OTHER    -> status[c]]
  BY DEF Insert
<1>a. At(u, "insert") /\ session[u].stage \in {"replace", "insert"}
  BY SMT DEF Insert, At
<1>b. status[new] = "none" /\ \A c \in off : status[c] # "none"
  BY <1>a, Zenon DEF SessionInv, Fresh, OffExists
<1> HIDE DEF new, off
<1>2. status'[b] = CASE b = new  -> "pending"
                     [] b \in off -> "revoked"
                     [] OTHER    -> status[b]
  BY <1>1, Zenon
<1>3. b = new => status'[b] = "pending"
  BY <1>b, <1>2, SMT
<1>4. b # new /\ b \in off => status'[b] = "revoked"
  BY <1>2, SMT
<1>5. b # new /\ b \notin off => status'[b] = status[b]
  BY <1>2, SMT
<1> QED
  BY <1>3, <1>4, <1>5 DEF new, off

LEMMA SessionStep == RowTypes /\ SessionInv /\ [Next]_vars => SessionInv'
<1> SUFFICES ASSUME RowTypes, SessionInv, [Next]_vars PROVE SessionInv'
  OBVIOUS
<1>0. /\ SessionType /\ status \in [Bindings -> BindingStatus]
      /\ Fresh /\ OffExists /\ LockPending /\ LockAlone /\ LockApart /\ Served
  BY DEF SessionInv, RowTypes
<1>1. ASSUME NEW u \in Requests, NEW b \in Bindings, Ask(u, b) PROVE SessionInv'
  <2>1. SessionType' /\ Becomes(u, "replace", b, Channel(b), {})
    BY <1>0, <1>1, AskStep
  <2>2. /\ status' = status /\ status[b] = "none"
        /\ \A v \in Requests : v # u /\ session[v].stage # "idle" => session[v].on # b
    BY <1>1, Zenon DEF Ask, rows, At
  <2> QED
    BY <2>1, <2>2, SessionBecomes, SMT DEF Stage, Holding
<1>2. ASSUME NEW u \in Requests, Replace(u) PROVE SessionInv'
  <2> DEFINE b == session[u].on
             off == Live(Channel(b))
  <2>1. SessionType' /\ b \in Bindings /\ Becomes(u, "insert", b, session[u].via, off)
    BY <1>0, <1>2, ReplaceStep
  <2>2. /\ status' = status /\ session[u].stage = "replace"
        /\ \A c \in off : ~Locked(c)
    BY <1>2, Zenon DEF Replace, rows, At
  <2>3. /\ status[b] = "none"
        /\ \A v \in Requests : v # u /\ session[v].stage # "idle" => session[v].on # b
    BY <1>0, <2>2, Zenon DEF Fresh
  <2>4. \A c \in off :
          /\ c \in Bindings /\ status[c] # "none" /\ Channel(c) = Channel(b)
          /\ \A v \in Requests : session[v].stage \in Holding => session[v].on # c
    <3> SUFFICES ASSUME NEW c \in off
                 PROVE  /\ c \in Bindings /\ status[c] # "none" /\ Channel(c) = Channel(b)
                        /\ \A v \in Requests : session[v].stage \in Holding => session[v].on # c
      OBVIOUS
    <3>1. c \in Bindings /\ Channel(c) = Channel(b) /\ status[c] # "none"
      BY SMT DEF Live
    <3> QED
      BY <2>2, <3>1, NotLocked, Zenon
  <2> HIDE DEF b, off
  <2> QED
    BY <2>1, <2>2, <2>3, <2>4, SessionBecomes, SMT DEF Stage, Holding
<1>3. ASSUME NEW u \in Requests, NEW b \in Bindings, NEW kind \in Kind, VerifyRead(u, b, kind)
      PROVE  SessionInv'
  <2>1. SessionType' /\ Becomes(u, "sign", b, kind, {})
    BY <1>0, <1>3, VerifyReadStep
  <2>2. status' = status /\ status[b] # "none" /\ Serves(kind, b)
    BY <1>3, SMT DEF VerifyRead, rows
  <2> QED
    BY <2>1, <2>2, SessionBecomes, SMT DEF Stage, Holding
<1>4. ASSUME NEW u \in Requests, MarkRead(u) PROVE SessionInv'
  <2> DEFINE b == session[u].on
  <2>1. SessionType' /\ b \in Bindings /\ Becomes(u, "mark", b, session[u].via, session[u].off)
    BY <1>0, <1>4, MarkReadStep
  <2>2. /\ status' = status /\ status[b] # "none"
        /\ session[u].stage = "sign" /\ session[u].via = "telegram"
    BY <1>4, SMT DEF MarkRead, rows, At
  <2>3. b \in Telegrams
    BY <1>0, <2>1, <2>2, ChannelOf, SMT DEF Served, Serves, At
  <2> HIDE DEF b
  <2> QED
    BY <2>1, <2>2, <2>3, SessionBecomes, SMT DEF Stage, Holding
<1>5. ASSUME NEW u \in Requests, NEW b \in Telegrams, NEW chat \in Chats, LinkRead(u, b, chat)
      PROVE  SessionInv'
  <2>1. SessionType' /\ Becomes(u, "bind", b, chat, {}) /\ b \in Bindings
    BY <1>0, <1>5, LinkReadStep DEF Bindings
  <2>2. status' = status /\ status[b] # "none"
    BY <1>5, SMT DEF LinkRead, rows
  <2> QED
    BY <2>1, <2>2, SessionBecomes, SMT DEF Stage, Holding
<1>6. ASSUME NEW u \in Requests, LinkBind(u) PROVE SessionInv'
  <2> DEFINE b == session[u].on
  <2>1. SessionType' /\ b \in Bindings /\ Becomes(u, "switch", b, session[u].via, session[u].off)
    BY <1>0, <1>6, LinkBindStep
  <2>2. status' = status /\ status[b] = "pending" /\ session[u].stage = "bind" /\ ~Locked(b)
    BY <1>6, Zenon DEF LinkBind, rows, At
  <2>3. b \in Telegrams /\ session[u].via \in Chats
    BY <1>0, <2>2, SMT DEF Served
  <2>4. \A v \in Requests :
          /\ At(v, "insert") => b \notin session[v].off
          /\ ~(session[v].stage \in Holding /\ session[v].on = b)
    BY <2>2, NotLocked
  <2> HIDE DEF b
  <2> QED
    BY <2>1, <2>2, <2>3, <2>4, SessionBecomes, SMT DEF Stage, Holding
<1>7. ASSUME NEW u \in Requests, LinkSwitchOff(u) PROVE SessionInv'
  <2> DEFINE b == session[u].on
             off == active \cap TelegramRows
  <2>1. SessionType' /\ b \in Bindings /\ Becomes(u, "commit", b, session[u].via, off)
    BY <1>0, <1>7, LinkSwitchOffStep
  <2>2. status' = status /\ session[u].stage = "switch" /\ session[u].stage \in Holding
    BY <1>7, SMT DEF LinkSwitchOff, rows, At, Holding
  <2>3. b \in Telegrams /\ session[u].via \in Chats /\ status[b] = "pending"
    BY <1>0, <2>2, SMT DEF Served, LockPending
  <2>4. \A v \in Requests : v # u => ~(session[v].stage \in Holding /\ session[v].on = b)
    BY <1>0, <2>2, Zenon DEF LockAlone
  <2>5. \A v \in Requests : v # u /\ At(v, "insert") => b \notin session[v].off
    BY <1>0, <2>2, Zenon DEF LockApart
  <2> HIDE DEF b, off
  <2> QED
    BY <2>1, <2>2, <2>3, <2>4, <2>5, SessionBecomes, SMT DEF Stage, Holding
<1>8. ASSUME NEW u \in Requests, Insert(u) PROVE SessionInv'
  <2> DEFINE new == session[u].on
  <2>1. SessionType' /\ Leaves(u) /\ new \in Bindings
    BY <1>0, <1>8, EndStep
  <2>2. session[u].stage = "insert" /\ At(u, "insert") /\ status[new] = "none"
    BY <1>0, <1>8, SMT DEF Insert, At, Fresh
  <2>3. \A b \in Bindings :
          /\ b = new => status'[b] = "pending"
          /\ b # new /\ b \in session[u].off => status'[b] = "revoked"
          /\ b # new /\ b \notin session[u].off => status'[b] = status[b]
    BY <1>8, InsertRows
  <2>4. \A b \in Bindings : status[b] # "none" => status'[b] # "none"
    BY <2>2, <2>3, SMT
  <2>5. ASSUME NEW v \in Requests, v # u, session[v].stage \in {"replace", "insert"}
        PROVE  status'[session[v].on] = "none"
    <3>1. session[v].stage # "idle" /\ status[session[v].on] = "none" /\ session[u].stage # "idle"
      BY <1>0, <2>2, <2>5, SMT DEF Fresh
    <3>2. session[v].on \in Bindings
      BY <1>0, <3>1, BusyRequest
    <3>3. session[v].on # new
      BY <1>0, <2>5, <3>1, Zenon DEF Fresh
    <3>4. session[v].on \notin session[u].off
      BY <1>0, <2>2, <3>1, Zenon DEF OffExists
    <3> QED
      BY <2>3, <3>1, <3>2, <3>3, <3>4, Zenon
  <2>6. ASSUME NEW v \in Requests, v # u, session[v].stage \in Holding
        PROVE  status'[session[v].on] = "pending"
    <3>1. session[v].stage # "idle" /\ status[session[v].on] = "pending"
      BY <1>0, <2>6, SMT DEF LockPending, Holding
    <3>2. session[v].on \in Bindings
      BY <1>0, <3>1, BusyRequest
    <3>3. session[v].on \notin session[u].off
      BY <1>0, <2>2, <2>6, Zenon DEF LockApart
    <3> QED
      BY <2>3, <3>1, <3>2, <3>3, Zenon
  <2> QED
    BY <2>1, <2>4, <2>5, <2>6, SessionEnds
<1>9. ASSUME NEW u \in Requests, Activate(u) \/ LinkCommit(u) PROVE SessionInv'
  <2> DEFINE b == session[u].on
  <2>1. SessionType' /\ Leaves(u) /\ b \in Bindings
    BY <1>0, <1>9, EndStep
  <2>2. status' = [status EXCEPT ![b] = "verified"] /\ status[b] = "pending"
    BY <1>0, <1>9, SMT DEF Activate, LinkCommit, LockPending, At, Holding
  <2>3. \A v \in Requests : v # u => ~(session[v].stage \in Holding /\ session[v].on = b)
    <3>1. CASE Activate(u)
      BY <3>1, NotLocked DEF Activate
    <3>2. CASE LinkCommit(u)
      <4>1. session[u].stage \in Holding
        BY <3>2, SMT DEF LinkCommit, At, Holding
      <4> QED
        BY <1>0, <4>1, Zenon DEF LockAlone
    <3> QED
      BY <1>9, <3>1, <3>2
  <2>4. status'[b] = "verified" /\ \A c \in Bindings : c # b => status'[c] = status[c]
    BY <1>0, <2>1, <2>2, SMT
  <2>5. \A c \in Bindings : status[c] # "none" => status'[c] # "none"
    BY <2>4, Zenon
  <2>6. ASSUME NEW v \in Requests, v # u, session[v].stage \in {"replace", "insert"}
        PROVE  status'[session[v].on] = "none"
    <3>1. status[session[v].on] = "none" /\ session[v].on \in Bindings
      BY <1>0, <2>6, BusyRequest, SMT DEF Fresh
    <3> QED
      BY <2>2, <2>4, <3>1, Zenon
  <2>7. ASSUME NEW v \in Requests, v # u, session[v].stage \in Holding
        PROVE  status'[session[v].on] = "pending"
    <3>1. status[session[v].on] = "pending" /\ session[v].on \in Bindings
      BY <1>0, <2>7, BusyRequest, SMT DEF LockPending, Holding
    <3> QED
      BY <2>3, <2>4, <2>7, <3>1, Zenon
  <2> QED
    BY <2>1, <2>5, <2>6, <2>7, SessionEnds
<1>10. ASSUME NEW u \in Requests, Mark(u) \/ Abandon(u) PROVE SessionInv'
  <2>1. SessionType' /\ Leaves(u) /\ status' = status
    BY <1>0, <1>10, EndStep DEF Mark, Abandon, rows
  <2> QED
    BY <1>0, <2>1, SessionEnds, Zenon DEF Fresh, LockPending
<1>11. CASE \/ \E b \in Bindings : Expire(b)
            \/ \E s \in Subscriptions : Deactivate(s)
            \/ UNCHANGED vars
  <2>1. session' = session /\ status' = status
    BY <1>11, Zenon DEF Expire, Deactivate, vars, rows
  <2> QED
    BY <2>1, SessionStill
<1> QED
  BY <1>1, <1>2, <1>3, <1>4, <1>5, <1>6, <1>7, <1>8, <1>9, <1>10, <1>11, Zenon
     DEF Next, Create, Verify, Link

-----------------------------------------------------------------------------
(* Proofs, how often they were accepted, and the live bindings.            *)

CountTypes == verified \in [Bindings -> Nat] /\ linked \in [Bindings -> Nat]

(* What the row of a binding tells of the proofs accepted for it: none     *)
(* while it does not exist, no signature while it still waits for one, and *)
(* no link while it is pending.                                            *)
ProofTold ==
    \A b \in Bindings :
        /\ status[b] = "none" => proof[b] = "none" /\ verified[b] = 0 /\ linked[b] = 0
        /\ status[b] = "verified" => proof[b] = "none"
        /\ status[b] = "pending" => linked[b] = 0
        /\ proof[b] = "link" => b \in Telegrams
        /\ proof[b] = "challenge" => verified[b] = 0

LiveAlone ==
    \A b, c \in Bindings :
        /\ status[b] \in {"pending", "verified"} /\ status[c] \in {"pending", "verified"}
        /\ Channel(b) = Channel(c)
        => b = c

RowInv == RowTypes /\ CountTypes /\ ProofTold /\ SingleUse /\ LiveAlone

LEMMA RowsStill ==
  ASSUME RowInv, UNCHANGED <<status, proof, verified, linked>>, expired' \subseteq Bindings
  PROVE  RowInv'
  BY Zenon DEF RowInv, RowTypes, CountTypes, ProofTold, SingleUse, LiveAlone

LEMMA InsertRowInv ==
  ASSUME RowInv, SessionInv, NEW u \in Requests, Insert(u)
  PROVE  RowInv'
<1> DEFINE new == session[u].on
           off == session[u].off
<1>1. new \in Bindings
  BY EndStep DEF SessionInv
<1>2. status[new] = "none"
  <2>1. session[u].stage \in {"replace", "insert"}
    BY SMT DEF Insert, At
  <2> QED
    BY <2>1, Zenon DEF SessionInv, Fresh
<1>3. /\ proof' = [proof EXCEPT ![new] = "challenge"]
      /\ UNCHANGED <<expired, verified, linked>>
      /\ \A b \in Bindings : Channel(b) = Channel(new) /\ status[b] \in {"pending", "verified"}
                               => b \in off
  BY Zenon DEF Insert, IndexAllows, Live
<1>4. \A b \in Bindings :
        /\ b = new => status'[b] = "pending"
        /\ b # new /\ b \in off => status'[b] = "revoked"
        /\ b # new /\ b \notin off => status'[b] = status[b]
  BY InsertRows
<1>5. \A S : (\A b \in Bindings : status'[b] \in S) => status' \in [Bindings -> S]
  BY Zenon DEF Insert
<1>6. proof \in [Bindings -> Proof] /\ status \in [Bindings -> BindingStatus]
  BY DEF RowInv, RowTypes
<1> HIDE DEF new, off
<1>7. proof'[new] = "challenge" /\ \A b \in Bindings : b # new => proof'[b] = proof[b]
  BY <1>1, <1>3, <1>6, Zenon
<1>8. RowTypes'
  <2>1. \A b \in Bindings : status'[b] \in BindingStatus
    BY <1>4, <1>6, SMT DEF BindingStatus
  <2>2. status' \in [Bindings -> BindingStatus]
    BY <1>5, <2>1, Zenon
  <2>3. proof' \in [Bindings -> Proof]
    BY <1>3, <1>6, Zenon DEF Proof
  <2> QED
    BY <1>3, <2>2, <2>3, Zenon DEF RowInv, RowTypes
<1>9. CountTypes' /\ SingleUse'
  BY <1>3, Zenon DEF RowInv, CountTypes, SingleUse
<1>10. ProofTold'
  BY <1>1, <1>2, <1>3, <1>4, <1>7, SMT DEF RowInv, ProofTold
<1>11. LiveAlone'
  BY <1>1, <1>3, <1>4, SMT DEF RowInv, LiveAlone
<1> QED
  BY <1>8, <1>9, <1>10, <1>11 DEF RowInv

LEMMA ActivateRowInv ==
  ASSUME RowInv, SessionInv, NEW u \in Requests, Activate(u)
  PROVE  RowInv'
<1> DEFINE b == session[u].on
<1>1. b \in Bindings
  BY EndStep DEF SessionInv
<1>2. /\ status[b] = "pending" /\ proof[b] = "challenge"
      /\ status' = [status EXCEPT ![b] = "verified"]
      /\ proof' = [proof EXCEPT ![b] = "none"]
      /\ verified' = [verified EXCEPT ![b] = @ + 1]
      /\ UNCHANGED <<expired, linked>>
  BY DEF Activate
<1>3. /\ proof \in [Bindings -> Proof] /\ status \in [Bindings -> BindingStatus]
      /\ verified \in [Bindings -> Nat] /\ linked \in [Bindings -> Nat]
  BY DEF RowInv, RowTypes, CountTypes
<1>4. verified[b] = 0
  BY <1>1, <1>2, Zenon DEF RowInv, ProofTold
<1> HIDE DEF b
<1>5. status'[b] = "verified" /\ \A c \in Bindings : c # b => status'[c] = status[c]
  BY <1>1, <1>2, <1>3, Zenon
<1>6. proof'[b] = "none" /\ \A c \in Bindings : c # b => proof'[c] = proof[c]
  BY <1>1, <1>2, <1>3, Zenon
<1>7a. verified[b] + 1 \in Nat
  BY <1>1, <1>3, SMT
<1>7. verified'[b] = 1 /\ \A c \in Bindings : c # b => verified'[c] = verified[c]
  BY <1>1, <1>2, <1>3, <1>4, SMT
<1>8. RowTypes'
  BY <1>2, <1>3, Zenon DEF RowInv, RowTypes, BindingStatus, Proof
<1>9. CountTypes'
  BY <1>2, <1>3, <1>7a, Zenon DEF CountTypes
<1>10. ProofTold'
  BY <1>1, <1>2, <1>5, <1>6, <1>7, SMT DEF RowInv, ProofTold
<1>11. SingleUse'
  BY <1>1, <1>2, <1>7, SMT DEF RowInv, SingleUse
<1>12. LiveAlone'
  BY <1>1, <1>2, <1>5, SMT DEF RowInv, LiveAlone
<1> QED
  BY <1>8, <1>9, <1>10, <1>11, <1>12 DEF RowInv

LEMMA MarkRowInv ==
  ASSUME RowInv, SessionInv, NEW u \in Requests, Mark(u)
  PROVE  RowInv'
<1> DEFINE b == session[u].on
<1>1. b \in Bindings /\ b \in Telegrams
  BY EndStep, Zenon DEF SessionInv, Served, Mark
<1>2. /\ proof[b] = "challenge"
      /\ proof' = [proof EXCEPT ![b] = "link"]
      /\ expired' = expired \ {b}
      /\ verified' = [verified EXCEPT ![b] = @ + 1]
      /\ UNCHANGED <<status, linked>>
  BY DEF Mark
<1>3. /\ proof \in [Bindings -> Proof] /\ status \in [Bindings -> BindingStatus]
      /\ verified \in [Bindings -> Nat] /\ linked \in [Bindings -> Nat]
      /\ expired \subseteq Bindings
  BY DEF RowInv, RowTypes, CountTypes
<1>4. verified[b] = 0 /\ status[b] # "none" /\ status[b] # "verified"
  BY <1>1, <1>2, SMT DEF RowInv, ProofTold
<1> HIDE DEF b
<1>6. proof'[b] = "link" /\ \A c \in Bindings : c # b => proof'[c] = proof[c]
  BY <1>1, <1>2, <1>3, Zenon
<1>7a. verified[b] + 1 \in Nat
  BY <1>1, <1>3, SMT
<1>7. verified'[b] = 1 /\ \A c \in Bindings : c # b => verified'[c] = verified[c]
  BY <1>1, <1>2, <1>3, <1>4, SMT
<1>8. RowTypes'
  <2>1. expired' \subseteq Bindings
    BY <1>2, <1>3, SMT
  <2> QED
    BY <1>2, <1>3, <2>1, Zenon DEF RowTypes, Proof
<1>9. CountTypes'
  BY <1>2, <1>3, <1>7a, Zenon DEF CountTypes
<1>10. ProofTold'
  BY <1>1, <1>2, <1>4, <1>6, <1>7, SMT DEF RowInv, ProofTold
<1>11. SingleUse'
  BY <1>1, <1>2, <1>7, SMT DEF RowInv, SingleUse
<1>12. LiveAlone'
  BY <1>2, Zenon DEF RowInv, LiveAlone
<1> QED
  BY <1>8, <1>9, <1>10, <1>11, <1>12 DEF RowInv

LEMMA LinkCommitRowInv ==
  ASSUME RowInv, SessionInv, NEW u \in Requests, LinkCommit(u)
  PROVE  RowInv'
<1> DEFINE b == session[u].on
<1>0. b \in Bindings
  BY EndStep DEF SessionInv
<1>1. b \in Bindings /\ status[b] = "pending"
  BY <1>0, SMT DEF SessionInv, LinkCommit, LockPending, At, Holding
<1>2. /\ status' = [status EXCEPT ![b] = "verified"]
      /\ proof' = [proof EXCEPT ![b] = "none"]
      /\ linked' = [linked EXCEPT ![b] = @ + 1]
      /\ UNCHANGED <<expired, verified>>
  BY DEF LinkCommit
<1>3. /\ proof \in [Bindings -> Proof] /\ status \in [Bindings -> BindingStatus]
      /\ verified \in [Bindings -> Nat] /\ linked \in [Bindings -> Nat]
  BY DEF RowInv, RowTypes, CountTypes
<1>4. linked[b] = 0
  BY <1>1, Zenon DEF RowInv, ProofTold
<1> HIDE DEF b
<1>5. status'[b] = "verified" /\ \A c \in Bindings : c # b => status'[c] = status[c]
  BY <1>1, <1>2, <1>3, Zenon
<1>6. proof'[b] = "none" /\ \A c \in Bindings : c # b => proof'[c] = proof[c]
  BY <1>1, <1>2, <1>3, Zenon
<1>7a. linked[b] + 1 \in Nat
  BY <1>1, <1>3, SMT
<1>7. linked'[b] = 1 /\ \A c \in Bindings : c # b => linked'[c] = linked[c]
  BY <1>1, <1>2, <1>3, <1>4, SMT
<1>8. RowTypes'
  BY <1>2, <1>3, Zenon DEF RowInv, RowTypes, BindingStatus, Proof
<1>9. CountTypes'
  BY <1>2, <1>3, <1>7a, Zenon DEF CountTypes
<1>10. ProofTold'
  BY <1>1, <1>2, <1>5, <1>6, <1>7, SMT DEF RowInv, ProofTold
<1>11. SingleUse'
  BY <1>1, <1>2, <1>7, SMT DEF RowInv, SingleUse
<1>12. LiveAlone'
  BY <1>1, <1>2, <1>5, SMT DEF RowInv, LiveAlone
<1> QED
  BY <1>8, <1>9, <1>10, <1>11, <1>12 DEF RowInv

(* The steps that leave all rows alone. *)
Reads(u) ==
    \/ \E b \in Bindings : Ask(u, b)
    \/ Replace(u) \/ MarkRead(u) \/ LinkBind(u) \/ LinkSwitchOff(u)
    \/ \E b \in Bindings, kind \in Kind : VerifyRead(u, b, kind)
    \/ \E b \in Telegrams, chat \in Chats : LinkRead(u, b, chat)

LEMMA ReadsQuiet ==
  ASSUME NEW u, Reads(u)
  PROVE  UNCHANGED <<rows, active, history>>
  BY Zenon DEF Reads, Ask, Replace, MarkRead, LinkBind, LinkSwitchOff, VerifyRead, LinkRead

LEMMA RowStep == RowInv /\ SessionInv /\ [Next]_vars => RowInv'
<1> SUFFICES ASSUME RowInv, SessionInv, [Next]_vars PROVE RowInv'
  OBVIOUS
<1>0. expired \subseteq Bindings
  BY DEF RowInv, RowTypes
<1>1. ASSUME NEW u \in Requests, Reads(u) PROVE RowInv'
  BY <1>0, <1>1, ReadsQuiet, RowsStill DEF rows, history
<1>2. ASSUME NEW u \in Requests, Insert(u) PROVE RowInv'
  BY <1>2, InsertRowInv
<1>3. ASSUME NEW u \in Requests, Activate(u) PROVE RowInv'
  BY <1>3, ActivateRowInv
<1>4. ASSUME NEW u \in Requests, Mark(u) PROVE RowInv'
  BY <1>4, MarkRowInv
<1>5. ASSUME NEW u \in Requests, LinkCommit(u) PROVE RowInv'
  BY <1>5, LinkCommitRowInv
<1>6. ASSUME NEW u \in Requests, Abandon(u) PROVE RowInv'
  BY <1>0, <1>6, RowsStill DEF Abandon, rows
<1>7. ASSUME NEW b \in Bindings, Expire(b) PROVE RowInv'
  <2>1. expired' \subseteq Bindings
    BY <1>0, <1>7, SMT DEF Expire
  <2> QED
    BY <1>7, <2>1, RowsStill DEF Expire, history
<1>8. CASE (\E s \in Subscriptions : Deactivate(s)) \/ UNCHANGED vars
  <2>1. UNCHANGED <<rows, history>>
    BY <1>8, Zenon DEF Deactivate, vars
  <2> QED
    BY <1>0, <2>1, RowsStill DEF rows, history
<1> QED
  BY <1>1, <1>2, <1>3, <1>4, <1>5, <1>6, <1>7, <1>8, Zenon
     DEF Next, Create, Verify, Link, Reads

-----------------------------------------------------------------------------
(* The owner's telegram chats.                                             *)

ActiveType == active \subseteq Subscriptions

ChatAlone == \A s, t \in active : s \in TelegramRows /\ t \in TelegramRows => s = t

(* A link about to commit switches off every chat that is on.              *)
OffCovers ==
    \A u \in Requests : At(u, "commit") =>
        \A s \in active : s \in TelegramRows => s \in session[u].off

ActiveInv == ActiveType /\ ChatAlone /\ OffCovers

(* One link at a time holds a binding: all telegram bindings share one     *)
(* place in the index.                                                     *)
LEMMA HolderAlone ==
  ASSUME RowInv, SessionInv, NEW u \in Requests, NEW v \in Requests,
         session[u].stage \in Holding, session[v].stage \in Holding
  PROVE  u = v
<1>1. /\ session[u].on \in Telegrams /\ status[session[u].on] = "pending"
      /\ session[v].on \in Telegrams /\ status[session[v].on] = "pending"
  BY SMT DEF SessionInv, Served, LockPending, Holding
<1>2. session[u].on \in Bindings /\ session[v].on \in Bindings
  BY <1>1 DEF Bindings
<1>3. Channel(session[u].on) = Channel(session[v].on)
  BY <1>1, ChannelOf, Zenon
<1>4. session[u].on = session[v].on
  BY <1>1, <1>2, <1>3, SMT DEF RowInv, LiveAlone
<1> QED
  BY <1>4, Zenon DEF SessionInv, LockAlone

LEMMA ActiveStill ==
  ASSUME ActiveInv, active' \subseteq active,
         \A u \in Requests : At(u, "commit")' => At(u, "commit") /\ session'[u] = session[u]
  PROVE  ActiveInv'
<1>1. ActiveType' /\ ChatAlone'
  BY SMT DEF ActiveInv, ActiveType, ChatAlone
<1>2. OffCovers'
  BY Zenon DEF ActiveInv, OffCovers
<1> QED
  BY <1>1, <1>2 DEF ActiveInv

LEMMA NotToCommit ==
  ASSUME NEW u \in Requests,
         \/ Leaves(u)
         \/ \E stage \in Stage \ {"commit"} : \E b, via, off : Becomes(u, stage, b, via, off)
  PROVE  \A v \in Requests : At(v, "commit")' => At(v, "commit") /\ session'[v] = session[v]
  BY SMT DEF Leaves, Becomes, At

LEMMA ReadsNotToCommit ==
  ASSUME SessionInv, NEW u \in Requests, Reads(u), ~LinkSwitchOff(u)
  PROVE  \A v \in Requests : At(v, "commit")' => At(v, "commit") /\ session'[v] = session[v]
<1>0. SessionType /\ {"replace", "insert", "sign", "mark", "bind", "switch"} \subseteq Stage \ {"commit"}
  BY SMT DEF SessionInv, Stage
<1>1. CASE \E b \in Bindings : Ask(u, b)
  BY <1>0, <1>1, AskStep, NotToCommit
<1>2. CASE Replace(u)
  BY <1>0, <1>2, ReplaceStep, NotToCommit
<1>3. CASE MarkRead(u)
  BY <1>0, <1>3, MarkReadStep, NotToCommit
<1>4. CASE LinkBind(u)
  BY <1>0, <1>4, LinkBindStep, NotToCommit
<1>5. CASE \E b \in Bindings, kind \in Kind : VerifyRead(u, b, kind)
  BY <1>0, <1>5, VerifyReadStep, NotToCommit
<1>6. CASE \E b \in Telegrams, chat \in Chats : LinkRead(u, b, chat)
  BY <1>0, <1>6, LinkReadStep, NotToCommit
<1> QED
  BY <1>1, <1>2, <1>3, <1>4, <1>5, <1>6, Zenon DEF Reads

LEMMA ActiveStep ==
  RowInv /\ SessionInv /\ ActiveInv /\ [Next]_vars => ActiveInv'
<1> SUFFICES ASSUME RowInv, SessionInv, ActiveInv, [Next]_vars PROVE ActiveInv'
  OBVIOUS
<1>0. SessionType
  BY DEF SessionInv
<1>1. ASSUME NEW u \in Requests, Reads(u), ~LinkSwitchOff(u) PROVE ActiveInv'
  <2>1. active' = active
    BY <1>1, ReadsQuiet
  <2> QED
    BY <1>1, <2>1, ReadsNotToCommit, ActiveStill, Zenon
<1>2. ASSUME NEW u \in Requests, LinkSwitchOff(u) PROVE ActiveInv'
  <2>1. active' = active /\ session'[u].off = active \cap TelegramRows
        /\ \A v \in Requests : v # u => session'[v] = session[v]
    BY <1>0, <1>2, LinkSwitchOffStep, Zenon DEF LinkSwitchOff, Becomes
  <2>2. OffCovers'
    BY <2>1, Zenon DEF ActiveInv, OffCovers, At
  <2> QED
    BY <2>1, <2>2, Zenon DEF ActiveInv, ActiveType, ChatAlone
<1>3. ASSUME NEW u \in Requests, Insert(u) \/ Mark(u) \/ Abandon(u) PROVE ActiveInv'
  <2>1. Leaves(u) /\ active' = active
    BY <1>0, <1>3, EndStep DEF Insert, Mark, Abandon
  <2> QED
    BY <2>1, NotToCommit, ActiveStill, Zenon
<1>4. ASSUME NEW u \in Requests, Activate(u) PROVE ActiveInv'
  <2> DEFINE new == <<session[u].via, session[u].on>>
  <2>1. Leaves(u) /\ session[u].on \in Bindings
    BY <1>0, <1>4, EndStep
  <2>2. active' = active \cup {new} /\ session[u].via \in Kind /\ session[u].via # "telegram"
    BY <1>4, Zenon DEF Activate, SessionInv, Served
  <2>3. new \in Subscriptions /\ new \notin TelegramRows
    BY <2>1, <2>2, SMT DEF Subscriptions, TelegramRows
  <2> HIDE DEF new
  <2>4. ActiveType' /\ ChatAlone'
    BY <2>2, <2>3, SMT DEF ActiveInv, ActiveType, ChatAlone
  <2>5. \A v \in Requests : At(v, "commit")' => At(v, "commit") /\ session'[v] = session[v]
    BY <2>1, NotToCommit
  <2>6. OffCovers'
    BY <2>2, <2>3, <2>5, SMT DEF ActiveInv, OffCovers
  <2> QED
    BY <2>4, <2>6 DEF ActiveInv
<1>5. ASSUME NEW u \in Requests, LinkCommit(u) PROVE ActiveInv'
  <2> DEFINE new == <<"telegram", session[u].via>>
             off == session[u].off
  <2>0. Leaves(u)
    BY <1>0, <1>5, EndStep
  <2>1. Leaves(u) /\ session[u].stage \in Holding /\ At(u, "commit")
    BY <1>5, <2>0, SMT DEF LinkCommit, Holding, At
  <2>2. active' = (active \ off) \cup {new} /\ session[u].via \in Chats
    BY <1>5, SMT DEF LinkCommit, SessionInv, Served, At
  <2>3. new \in Subscriptions
    BY <2>2, SMT DEF Subscriptions
  <2>4. \A s \in active : s \in TelegramRows => s \in off
    BY <2>1, Zenon DEF ActiveInv, OffCovers
  <2> HIDE DEF new, off
  <2>5. ActiveType'
    BY <2>2, <2>3, SMT DEF ActiveInv, ActiveType
  <2>6. ChatAlone'
    BY <2>2, <2>4, SMT DEF ChatAlone
  <2>7. \A v \in Requests : ~At(v, "commit")'
    BY <2>1, HolderAlone, SMT DEF Leaves, At, Holding
  <2> QED
    BY <2>5, <2>6, <2>7, Zenon DEF ActiveInv, OffCovers
<1>6. CASE \/ \E b \in Bindings : Expire(b)
           \/ \E s \in Subscriptions : Deactivate(s)
           \/ UNCHANGED vars
  <2>1. session' = session /\ active' \subseteq active
    BY <1>6, SMT DEF Expire, Deactivate, vars
  <2>2. \A v \in Requests : At(v, "commit")' => At(v, "commit") /\ session'[v] = session[v]
    BY <2>1, Zenon DEF At
  <2> QED
    BY <2>1, <2>2, ActiveStill
<1> QED
  BY <1>1, <1>2, <1>3, <1>4, <1>5, <1>6, Zenon DEF Next, Create, Verify, Link, Reads

-----------------------------------------------------------------------------
(* Requests for a webhook that saw no verified one.                        *)

(* A verified webhook was verified while every such request was under way. *)
OverInv ==
    /\ overtaken \subseteq Asked
    /\ \A u \in Asked, b \in Webhooks : status[b] = "verified" => u \in overtaken

LEMMA OverStill ==
  ASSUME OverInv, overtaken' = overtaken, Asked' = Asked,
         \A b \in Webhooks : status'[b] = "verified" => status[b] = "verified"
  PROVE  OverInv'
  BY Zenon DEF OverInv

(* The request for a challenge ends. *)
LEMMA OverEnds ==
  ASSUME OverInv, NEW u \in Requests, Leaves(u), overtaken' = overtaken \ {u},
         \A b \in Webhooks : status'[b] = "verified" => status[b] = "verified"
  PROVE  OverInv'
<1>1. Asked' = Asked \ {u}
  BY SMT DEF Asked, Leaves
<1> QED
  BY <1>1, SMT DEF OverInv

(* Another request goes on. *)
LEMMA AskedStill ==
  ASSUME NEW u \in Requests, session[u].stage \notin {"replace", "insert"},
         \/ Leaves(u)
         \/ \E stage \in Stage \ {"replace", "insert"} : \E b, via, off :
               Becomes(u, stage, b, via, off)
  PROVE  Asked' = Asked
  BY SMT DEF Asked, Leaves, Becomes

LEMMA OverStep == RowInv /\ SessionInv /\ OverInv /\ [Next]_vars => OverInv'
<1> SUFFICES ASSUME RowInv, SessionInv, OverInv, [Next]_vars PROVE OverInv'
  OBVIOUS
<1>0. /\ SessionType /\ status \in [Bindings -> BindingStatus]
      /\ {"sign", "mark", "bind", "switch", "commit"} \subseteq Stage \ {"replace", "insert"}
  BY SMT DEF SessionInv, RowInv, RowTypes, Stage
<1>1. ASSUME NEW u \in Requests, NEW b \in Bindings, Ask(u, b) PROVE OverInv'
  <2>1. Becomes(u, "replace", b, Channel(b), {})
    BY <1>0, <1>1, AskStep
  <2>2. overtaken' = overtaken /\ status' = status /\ session[u].stage = "idle"
    BY <1>1, Zenon DEF Ask, rows, history, At
  <2>3. u \notin Asked
    BY <2>2, SMT DEF Asked
  <2>4. CASE b \in Webhooks
    <3>1. \A c \in Webhooks : status[c] # "verified"
      <4> SUFFICES ASSUME NEW c \in Webhooks, status[c] = "verified" PROVE FALSE
        OBVIOUS
      <4>1. c \in Live("webhook")
        BY ChannelOf, SMT DEF Live, Bindings
      <4> QED
        BY <1>1, <2>4, <4>1, Zenon DEF Ask
    <3>2. Asked \subseteq Asked'
      BY <2>1, <2>2, SMT DEF Asked, Becomes
    <3> QED
      BY <2>2, <3>1, <3>2, Zenon DEF OverInv
  <2>5. CASE b \notin Webhooks
    <3>1. Asked' = Asked
      BY <2>1, <2>2, <2>5, SMT DEF Asked, Becomes
    <3> QED
      BY <2>2, <3>1, OverStill
  <2> QED
    BY <2>4, <2>5
<1>2. ASSUME NEW u \in Requests, Replace(u) PROVE OverInv'
  <2>1. Becomes(u, "insert", session[u].on, session[u].via, Live(Channel(session[u].on)))
    BY <1>0, <1>2, ReplaceStep
  <2>2. overtaken' = overtaken /\ status' = status /\ session[u].stage = "replace"
    BY <1>2, Zenon DEF Replace, rows, history, At
  <2>3. Asked' = Asked
    BY <2>1, <2>2, SMT DEF Asked, Becomes
  <2> QED
    BY <2>2, <2>3, OverStill
<1>3. ASSUME NEW u \in Requests, Reads(u), ~Replace(u), \A b \in Bindings : ~Ask(u, b)
      PROVE  OverInv'
  <2>1. overtaken' = overtaken /\ status' = status
    BY <1>3, ReadsQuiet DEF rows, history
  <2>2. session[u].stage \notin {"replace", "insert"}
    BY <1>3, SMT DEF Reads, MarkRead, LinkBind, LinkSwitchOff, VerifyRead, LinkRead, At
  <2>3. \E stage \in Stage \ {"replace", "insert"} : \E b, via, off : Becomes(u, stage, b, via, off)
    <3>1. CASE MarkRead(u)
      BY <1>0, <3>1, MarkReadStep
    <3>2. CASE LinkBind(u)
      BY <1>0, <3>2, LinkBindStep
    <3>3. CASE LinkSwitchOff(u)
      BY <1>0, <3>3, LinkSwitchOffStep
    <3>4. CASE \E b \in Bindings, kind \in Kind : VerifyRead(u, b, kind)
      BY <1>0, <3>4, VerifyReadStep
    <3>5. CASE \E b \in Telegrams, chat \in Chats : LinkRead(u, b, chat)
      BY <1>0, <3>5, LinkReadStep
    <3> QED
      BY <1>3, <3>1, <3>2, <3>3, <3>4, <3>5, Zenon DEF Reads
  <2>4. Asked' = Asked
    BY <2>2, <2>3, AskedStill
  <2> QED
    BY <2>1, <2>4, OverStill
<1>4. ASSUME NEW u \in Requests, Insert(u) PROVE OverInv'
  <2>1. Leaves(u) /\ overtaken' = overtaken \ {u}
    BY <1>0, <1>4, EndStep DEF Insert
  <2>2. \A b \in Bindings : status'[b] = "verified" => status[b] = "verified"
    BY <1>4, InsertRows, SMT
  <2>3. \A b \in Webhooks : status'[b] = "verified" => status[b] = "verified"
    BY <2>2 DEF Bindings
  <2> QED
    BY <2>1, <2>3, OverEnds
<1>5. ASSUME NEW u \in Requests, Activate(u) PROVE OverInv'
  <2> DEFINE b == session[u].on
  <2>1. Leaves(u) /\ b \in Bindings
    BY <1>0, <1>5, EndStep
  <2>2. /\ session[u].stage \notin {"replace", "insert"}
        /\ status' = [status EXCEPT ![b] = "verified"]
        /\ overtaken' = IF b \in Webhooks THEN overtaken \cup Asked ELSE overtaken
    BY <1>5, SMT DEF Activate, At
  <2>3. Asked' = Asked
    BY <2>1, <2>2, AskedStill
  <2>4. CASE b \in Webhooks
    BY <2>2, <2>3, <2>4, SMT DEF OverInv
  <2>5. CASE b \notin Webhooks
    <3>1. \A c \in Webhooks : status'[c] = status[c]
      BY <1>0, <2>2, <2>5, Zenon DEF Bindings
    <3> QED
      BY <2>2, <2>3, <2>5, <3>1, OverStill
  <2> QED
    BY <2>4, <2>5
<1>6. ASSUME NEW u \in Requests, Mark(u) PROVE OverInv'
  <2>1. Leaves(u) /\ overtaken' = overtaken /\ status' = status
    BY <1>0, <1>6, EndStep DEF Mark
  <2>2. session[u].stage \notin {"replace", "insert"}
    BY <1>6, SMT DEF Mark, At
  <2> QED
    BY <2>1, <2>2, AskedStill, OverStill
<1>7. ASSUME NEW u \in Requests, LinkCommit(u) PROVE OverInv'
  <2> DEFINE b == session[u].on
  <2>1. Leaves(u) /\ overtaken' = overtaken
    BY <1>0, <1>7, EndStep DEF LinkCommit
  <2>2. /\ session[u].stage = "commit"
        /\ status' = [status EXCEPT ![b] = "verified"]
    BY <1>7, SMT DEF LinkCommit, At
  <2>3. b \in Telegrams
    BY <2>2, SMT DEF SessionInv, Served
  <2>4. b \notin Webhooks
    BY <2>3, ChannelOf
  <2>5. \A c \in Webhooks : status'[c] = status[c]
    BY <1>0, <2>2, <2>4, Zenon DEF Bindings
  <2>6. session[u].stage \notin {"replace", "insert"}
    BY <2>2, SMT
  <2> QED
    BY <2>1, <2>5, <2>6, AskedStill, OverStill
<1>8. ASSUME NEW u \in Requests, Abandon(u) PROVE OverInv'
  <2>1. Leaves(u) /\ overtaken' = overtaken \ {u} /\ status' = status
    BY <1>0, <1>8, EndStep DEF Abandon, rows
  <2> QED
    BY <2>1, OverEnds
<1>9. CASE \/ \E b \in Bindings : Expire(b)
           \/ \E s \in Subscriptions : Deactivate(s)
           \/ UNCHANGED vars
  <2>1. session' = session /\ overtaken' = overtaken /\ status' = status
    BY <1>9, Zenon DEF Expire, Deactivate, vars, rows, history
  <2>2. Asked' = Asked
    BY <2>1, Zenon DEF Asked
  <2> QED
    BY <2>1, <2>2, OverStill
<1> QED
  BY <1>1, <1>2, <1>3, <1>4, <1>5, <1>6, <1>7, <1>8, <1>9, Zenon
     DEF Next, Create, Verify, Link, Reads

-----------------------------------------------------------------------------
(* The inductive invariant, and what follows from it.                      *)

AccessInv == RowInv /\ SessionInv /\ ActiveInv /\ OverInv

LEMMA AccessInit == Init => AccessInv
<1> SUFFICES ASSUME Init PROVE AccessInv
  OBVIOUS
<1>0. \A u \in Requests : session[u] = Idle /\ session[u].stage = "idle"
  BY IdleRequest, Zenon DEF Init
<1>1. RowInv
  <2>1. RowTypes
    BY SMT DEF Init, RowTypes, BindingStatus, Proof
  <2>2. CountTypes
    BY SMT DEF Init, CountTypes
  <2>3. ProofTold /\ SingleUse /\ LiveAlone
    BY SMT DEF Init, ProofTold, SingleUse, LiveAlone
  <2> QED
    BY <2>1, <2>2, <2>3 DEF RowInv
<1>2. SessionInv
  <2>1. SessionType
    BY IdleRequest, Zenon DEF Init, SessionType
  <2>2. Served /\ Fresh /\ OffExists /\ LockPending /\ LockAlone /\ LockApart
    BY <1>0, SMT DEF Served, Fresh, OffExists, LockPending, LockAlone, LockApart, At, Holding
  <2> QED
    BY <2>1, <2>2 DEF SessionInv
<1>3. ActiveInv
  BY <1>0, SMT DEF Init, ActiveInv, ActiveType, ChatAlone, OffCovers, At
<1>4. OverInv
  BY <1>0, SMT DEF Init, OverInv, Asked
<1> QED
  BY <1>1, <1>2, <1>3, <1>4 DEF AccessInv

LEMMA AccessStep == AccessInv /\ [Next]_vars => AccessInv'
  BY SessionStep, RowStep, ActiveStep, OverStep, Zenon DEF AccessInv, RowInv

LEMMA AccessAlways == Spec => []AccessInv
  BY AccessInit, AccessStep, PTL DEF Spec

(* Every reachable state is well typed: a verified binding keeps no proof, *)
(* only telegram bindings have link tokens, and only requests for a        *)
(* webhook challenge are counted as overtaken.                             *)
THEOREM AccessTypeCorrect == Spec => []TypeOK
<1>1. AccessInv => TypeOK
  BY Zenon DEF AccessInv, RowInv, RowTypes, CountTypes, ProofTold, SessionInv, SessionType,
               ActiveInv, ActiveType, OverInv, TypeOK
<1> QED
  BY <1>1, AccessAlways, PTL

(* A challenge is answered with success at most once, and so is a link     *)
(* token, however many requests race for it.                               *)
THEOREM AccessSingleUse == Spec => []SingleUse
<1>1. AccessInv => SingleUse
  BY DEF AccessInv, RowInv
<1> QED
  BY <1>1, AccessAlways, PTL

LEMMA AtMostOne ==
  ASSUME NEW S, \A x, y \in S : x = y
  PROVE  Cardinality(S) <= 1
<1>1. CASE S = {}
  BY <1>1, FS_EmptySet, SMT
<1>2. CASE S # {}
  <2>1. PICK x : x \in S
    BY <1>2
  <2>2. S = {x}
    BY <2>1
  <2> QED
    BY <2>2, FS_Singleton, SMT
<1> QED
  BY <1>1, <1>2

(* At most one challenge or verified binding per channel: the index lets   *)
(* an insert commit only over bindings it revokes itself, whatever other   *)
(* requests committed since its update ran.                                *)
THEOREM AccessOneLiveBinding == Spec => []OneLiveBinding
<1>1. AccessInv => OneLiveBinding
  <2> SUFFICES ASSUME AccessInv, NEW channel \in Kind PROVE Cardinality(Live(channel)) <= 1
    BY DEF OneLiveBinding
  <2>1. \A x, y \in Live(channel) : x = y
    BY SMT DEF AccessInv, RowInv, LiveAlone, Live
  <2> QED
    BY <2>1, AtMostOne
<1> QED
  BY <1>1, AccessAlways, PTL

(* Notifications go to at most one telegram chat: two links cannot both    *)
(* hold a binding, so the one that commits has switched off all others.    *)
THEOREM AccessOneActiveTelegram == Spec => []OneActiveTelegram
<1>1. AccessInv => OneActiveTelegram
  <2> SUFFICES ASSUME AccessInv PROVE Cardinality(active \cap TelegramRows) <= 1
    BY DEF OneActiveTelegram, TelegramRows
  <2>1. \A x, y \in active \cap TelegramRows : x = y
    BY SMT DEF AccessInv, ActiveInv, ChatAlone
  <2> QED
    BY <2>1, AtMostOne
<1> QED
  BY <1>1, AccessAlways, PTL

LEMMA ActivatesPending ==
  AccessInv /\ [Next]_vars
    => [/\ \A s \in active' \ active : \E b \in Bindings :
              status[b] = "pending" /\ status'[b] = "verified"
        /\ \A b \in Bindings : status[b] = "revoked" => status'[b] = "revoked"]_vars
<1> DEFINE Switched == \A s \in active' \ active : \E b \in Bindings :
                         status[b] = "pending" /\ status'[b] = "verified"
           Revoked == \A b \in Bindings : status[b] = "revoked" => status'[b] = "revoked"
<1> SUFFICES ASSUME AccessInv, Next PROVE Switched /\ Revoked
  BY Zenon
<1>0. SessionInv /\ SessionType /\ status \in [Bindings -> BindingStatus]
  BY DEF AccessInv, SessionInv, RowInv, RowTypes
<1>1. ASSUME NEW u \in Requests, Insert(u) PROVE Switched /\ Revoked
  <2>1. active' = active /\ session[u].stage \in {"replace", "insert"}
    BY <1>1, SMT DEF Insert, At
  <2>2. status[session[u].on] = "none"
    BY <1>0, <2>1, Zenon DEF SessionInv, Fresh
  <2>3. Revoked
    BY <1>0, <1>1, <2>2, InsertRows, SMT
  <2> QED
    BY <2>1, <2>3
<1>2. ASSUME NEW u \in Requests, Activate(u) \/ LinkCommit(u) PROVE Switched /\ Revoked
  <2> DEFINE b == session[u].on
  <2>1. b \in Bindings
    BY <1>0, <1>2, EndStep
  <2>2. status' = [status EXCEPT ![b] = "verified"] /\ status[b] = "pending"
    BY <1>0, <1>2, SMT DEF Activate, LinkCommit, SessionInv, LockPending, At, Holding
  <2> HIDE DEF b
  <2>3. status'[b] = "verified" /\ \A c \in Bindings : c # b => status'[c] = status[c]
    BY <1>0, <2>1, <2>2, Zenon
  <2>4. Revoked
    BY <2>2, <2>3, SMT
  <2> QED
    BY <2>1, <2>2, <2>3, <2>4, Zenon
<1>3. ASSUME NEW u \in Requests, Reads(u) \/ Mark(u) \/ Abandon(u) PROVE Switched /\ Revoked
  <2>1. active' = active /\ status' = status
    BY <1>3, ReadsQuiet, Zenon DEF Mark, Abandon, rows
  <2> QED
    BY <2>1
<1>4. CASE (\E b \in Bindings : Expire(b)) \/ (\E s \in Subscriptions : Deactivate(s))
  <2>1. active' \subseteq active /\ status' = status
    BY <1>4, SMT DEF Expire, Deactivate, rows
  <2> QED
    BY <2>1, SMT
<1> HIDE DEF Switched, Revoked
<1> QED
  BY <1>1, <1>2, <1>3, <1>4, Zenon DEF Next, Create, Verify, Link, Reads

(* A route is switched on only by the step that turns a pending binding    *)
(* into a verified one, and a revoked binding is never used again.         *)
THEOREM AccessOnlyPendingActivates == Spec => OnlyPendingActivates
<1> QED
  BY ActivatesPending, AccessAlways, PTL DEF Spec, OnlyPendingActivates

LEMMA YieldsToOvertaken ==
  AccessInv /\ [Next]_vars
    => [\A b \in Webhooks : status[b] = "verified" /\ status'[b] = "revoked" =>
          \E u \in overtaken : At(u, "insert") /\ b \in session[u].off
                              /\ status'[session[u].on] = "pending"]_vars
<1> SUFFICES ASSUME AccessInv, Next, NEW b \in Webhooks,
                    status[b] = "verified", status'[b] = "revoked"
             PROVE  \E u \in overtaken : At(u, "insert") /\ b \in session[u].off
                                         /\ status'[session[u].on] = "pending"
  BY Zenon
<1>0. /\ SessionInv /\ SessionType /\ status \in [Bindings -> BindingStatus] /\ b \in Bindings
  BY DEF AccessInv, SessionInv, RowInv, RowTypes, Bindings
<1>1. ASSUME NEW u \in Requests, Activate(u) \/ LinkCommit(u) PROVE FALSE
  <2>1. status' = [status EXCEPT ![session[u].on] = "verified"]
    BY <1>1, Zenon DEF Activate, LinkCommit
  <2> QED
    BY <1>0, <2>1, SMT
<1>2. \E u \in Requests : Insert(u)
  <2>1. status' # status
    BY SMT
  <2>2. \A u \in Requests : ~Reads(u) /\ ~Mark(u) /\ ~Abandon(u)
    BY <2>1, ReadsQuiet, Zenon DEF Mark, Abandon, rows
  <2>3. /\ ~ \E c \in Bindings : Expire(c)
        /\ ~ \E s \in Subscriptions : Deactivate(s)
    BY <2>1, Zenon DEF Expire, Deactivate, rows
  <2> QED
    BY <1>1, <2>2, <2>3, Zenon DEF Next, Create, Verify, Link, Reads
<1>3. PICK u \in Requests : Insert(u)
  BY <1>2
<1>4. At(u, "insert") /\ session[u].stage \in {"replace", "insert"} /\ session[u].on \in Bindings
  <2>1. session[u].on \in Bindings
    BY <1>0, <1>3, EndStep
  <2> QED
    BY <1>3, <2>1, SMT DEF Insert, At
<1>5. status'[session[u].on] = "pending" /\ b \in session[u].off
  <2>1. status'[session[u].on] = "pending"
    BY <1>0, <1>3, <1>4, InsertRows
  <2>2. b # session[u].on /\ (b \notin session[u].off => status'[b] = status[b])
    BY <1>0, <1>3, <2>1, InsertRows, SMT
  <2> QED
    BY <2>1, <2>2, SMT
<1>6. session[u].on \in Webhooks
  <2>1. Channel(b) = Channel(session[u].on)
    BY <1>0, <1>4, <1>5, Zenon DEF SessionInv, OffExists
  <2> QED
    BY <1>4, <2>1, ChannelOf, Zenon
<1>7. u \in overtaken
  BY <1>4, <1>6, Zenon DEF AccessInv, OverInv, Asked
<1> QED
  BY <1>4, <1>5, <1>7

(* A verified webhook gives way only to a request for a challenge that was *)
(* already under way when a webhook was verified.                          *)
THEOREM AccessYieldsToOverlap == Spec => VerifiedWebhookYieldsToOverlap
<1> QED
  BY YieldsToOvertaken, AccessAlways, PTL DEF Spec, VerifiedWebhookYieldsToOverlap
=============================================================================
