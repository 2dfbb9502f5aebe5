--------------------------- MODULE McpClientProof ---------------------------
(***************************************************************************)
(* Proofs about mcp.Client, for any number of concurrent calls and every   *)
(* server. The inductive invariant McpInv follows an answer on its way:    *)
(* the IDs are unique, a call keeps its waiters until it returns, so the   *)
(* reader finds the request that an answer is for, or nobody; and an       *)
(* answer that was promised is on its way, on the stream that the request  *)
(* was sent over.                                                          *)
(***************************************************************************)
EXTENDS McpClient, TLAPS

ClientTypes ==
  /\ faults \subseteq Faults
  /\ bridge \in Requests \cup {None} /\ connection \in Requests \cup {None}
  /\ nextID \in Nat
  /\ DOMAIN waiters \subseteq 1..nextID
  /\ \A i \in DOMAIN waiters : waiters[i] \in Requests
  /\ channel \in [Requests -> Requests \cup {None}]
  /\ pc \in [Calls -> CallPC] /\ turn \in [Calls -> 1..2]
  /\ target \in [Requests -> Requests \cup {None}]
  /\ result \in [Calls -> {"none", "error", "timeout", "answer"}]
  /\ answered \in [Calls -> Requests \cup {None}]
  /\ stream \in [Requests -> {"none", "open", "closed"}]
  /\ announced \subseteq Requests /\ ended \subseteq Requests
  /\ due \subseteq [id : Nat, to : Requests, over : Requests]

\* A request that its call stored in waiters and did not delete yet.
Registered(r) ==
  /\ pc[r[1]] # "done"
  /\ \/ r[2] < turn[r[1]]
     \/ r[2] = turn[r[1]] /\ pc[r[1]] \in {"post", "accepted", "wait", "forget", "close"}

\* A call keeps a waiter for every request it sent until it returns.
WaiterInv ==
  /\ \A i \in DOMAIN waiters : Registered(waiters[i])
  /\ \A i, j \in DOMAIN waiters : waiters[i] = waiters[j] => i = j
  /\ \A c \in Calls : pc[c] \in {"post", "accepted", "wait"} =>
       \E i \in DOMAIN waiters : waiters[i] = request(c)

\* The reader finds the waiter of an answer under its ID, or nobody: an ID is
\* never used again, and a call that has not returned keeps its waiters.
Addressed(d) ==
  /\ d.id <= nextID
  /\ d.id \in DOMAIN waiters => waiters[d.id] = d.to
  /\ pc[d.to[1]] # "done" => d.id \in DOMAIN waiters

\* Answers are addressed, and a channel holds the answer to its own request.
AnswerInv ==
  /\ \A d \in due : Addressed(d)
  /\ \A r \in Requests : channel[r] \in {None, r}
  /\ \A c \in Calls :
       /\ result[c] # "none" => pc[c] = "done"
       /\ result[c] = "answer" => answered[c] = request(c)

\* The maps name streams that were opened, and the URLs they carried.
MapsInv ==
  /\ announced \subseteq {r \in Requests : stream[r] # "none"}
  /\ bridge # None => bridge \in announced
  /\ connection # None => stream[connection] # "none"
  /\ \A r \in Requests : target[r] # None => target[r] \in announced
  /\ \A r \in Requests : stream[r] # "none" => r[2] <= turn[r[1]]
  /\ "expires" \notin faults => ended = {}

\* A call clears the cache once, in its first turn, and never finds its own
\* bridge afterwards.
ClearsInv ==
  \A c \in Calls : /\ pc[c] \in {"forget", "close"} => turn[c] = 1
                   /\ bridge = <<c, 1>> => turn[c] = 1 /\ pc[c] # "close"
                   /\ target[<<c, 2>>] # <<c, 1>>

\* Streams that do not break are closed by a call that retries.
ClosedInv ==
  "drops" \notin faults => \A r \in Requests : stream[r] = "closed" =>
    (\E d \in Calls \ {r[1]} : turn[d] = 2) \/ (r[2] = 1 /\ turn[r[1]] = 2)

StreamInv == MapsInv /\ ClearsInv /\ ClosedInv

\* An answer that was promised is on its way or has arrived.
PromiseInv ==
  \A c \in Calls : pc[c] \in {"accepted", "wait"} =>
    \/ channel[request(c)] # None
    \/ \E d \in due : d.to = request(c) /\ d.over = session(c)

HealthyInv ==
  faults \subseteq {"nosse"} => \A c \in Calls : turn[c] = 1 /\ pc[c] \notin {"forget", "close"}

McpInv ==
  /\ ClientTypes /\ WaiterInv /\ AnswerInv /\ StreamInv /\ PromiseInv /\ HealthyInv
  /\ HealthyServerAnswers /\ LossNeedsRival

-----------------------------------------------------------------------------
(* Types.                                                                  *)

\* Returning drops the waiters of the call and keeps the others (the deferred
\* deletes of rpcWithRetry).
LEMMA ReturnTypes ==
  ASSUME ClientTypes, NEW c \in Calls, NEW r \in {"error", "timeout", "answer"},
         NEW a \in Requests \cup {None}, Return(c, r, a), UNCHANGED nextID
  PROVE  /\ pc' \in [Calls -> CallPC] /\ pc' = [pc EXCEPT ![c] = "done"]
         /\ result' \in [Calls -> {"none", "error", "timeout", "answer"}]
         /\ answered' \in [Calls -> Requests \cup {None}]
         /\ DOMAIN waiters' \subseteq 1..nextID'
         /\ \A i \in DOMAIN waiters' : waiters'[i] \in Requests
         /\ \A i : i \in DOMAIN waiters' <=> i \in DOMAIN waiters /\ waiters[i][1] # c
         /\ \A i \in DOMAIN waiters' : waiters'[i] = waiters[i]
  BY DEF Return, Goto, ClientTypes, CallPC

\* A request names its call and its turn.
LEMMA RequestType ==
  ASSUME ClientTypes, NEW c \in Calls
  PROVE  /\ request(c) \in Requests /\ request(c)[1] = c /\ request(c)[2] = turn[c]
         /\ turn[c] \in 1..2
         /\ \A r \in Requests : r[1] \in Calls /\ r[2] \in 1..2 /\ r = <<r[1], r[2]>>
         /\ None \notin Requests
         /\ \A d \in Calls : <<d, 1>> \in Requests /\ <<d, 2>> \in Requests
         /\ \A d \in Calls : request(d) = request(c) => d = c
  BY McpClientAssumption DEF request, ClientTypes, Requests

\* waiters.Store adds the request under a fresh ID.
LEMMA RegisterWaiter ==
  ASSUME ClientTypes, NEW c \in Calls, Register(c)
  PROVE  /\ nextID' = nextID + 1 /\ nextID' \notin DOMAIN waiters
         /\ DOMAIN waiters' = DOMAIN waiters \cup {nextID'}
         /\ waiters'[nextID'] = request(c)
         /\ \A i \in DOMAIN waiters : waiters'[i] = waiters[i]
  BY DEF Register, ClientTypes

\* A call that waits finds the ID that its request was stored under.
LEMMA IDRegistered ==
  ASSUME ClientTypes, WaiterInv, NEW c \in Calls, pc[c] \in {"post", "accepted", "wait"}
  PROVE  ID(c) \in DOMAIN waiters /\ waiters[ID(c)] = request(c)
  BY DEF WaiterInv, ID

\* Nothing is registered when the client starts.
LEMMA ClientInit == Init => McpInv
  <1> SUFFICES ASSUME Init PROVE McpInv
    OBVIOUS
  <1> USE McpClientAssumption
  <1>1. DOMAIN waiters = {}
    BY DEF Init
  <1>2. ClientTypes
    <2>1. \A c \in Calls : "resolve" \in CallPC
      BY DEF CallPC
    <2> QED
      BY <1>1, <2>1 DEF Init, ClientTypes
  <1>3. WaiterInv
    BY <1>1 DEF Init, WaiterInv
  <1>4. AnswerInv
    BY <1>1 DEF Init, AnswerInv
  <1>5. StreamInv
    <2>1. \A c \in Calls : <<c, 1>> \in Requests /\ <<c, 2>> \in Requests
      BY DEF Requests
    <2> QED
      BY <2>1 DEF Init, StreamInv, MapsInv, ClearsInv, ClosedInv
  <1>6. PromiseInv
    BY DEF Init, PromiseInv
  <1>7. HealthyInv
    BY DEF Init, HealthyInv
  <1>8. HealthyServerAnswers /\ LossNeedsRival
    BY DEF Init, HealthyServerAnswers, LossNeedsRival
  <1> QED
    BY <1>2, <1>3, <1>4, <1>5, <1>6, <1>7, <1>8 DEF McpInv

\* Every step of a call, of the server and of the readers keeps the maps typed.
LEMMA ClientTypesStep == McpInv /\ [Next]_vars => ClientTypes'
  <1> SUFFICES ASSUME McpInv, [Next]_vars PROVE ClientTypes'
    OBVIOUS
  <1>1. ClientTypes
    BY DEF McpInv
  <1> USE DEF clientVars, callVars, serverVars
  <1>2. CASE UNCHANGED vars
    BY <1>1, <1>2 DEF vars, ClientTypes
  <1>3. ASSUME NEW c \in Calls, CallStep(c) PROVE ClientTypes'
    <2>1. request(c) \in Requests /\ turn[c] \in 1..2
      BY <1>1, RequestType
    <2>2. CASE Resolve(c)
      BY <1>1, <2>1, <2>2 DEF Resolve, Target, Goto, ClientTypes, CallPC
    <2>3. CASE OpenStream(c)
      BY <1>1, <2>1, <2>3 DEF OpenStream, Goto, ClientTypes, CallPC
    <2>4. CASE NoStream(c)
      BY <1>1, <2>1, <2>4 DEF NoStream, Target, Goto, ClientTypes, CallPC
    <2>5. CASE Discovered(c)
      BY <1>1, <2>1, <2>5 DEF Discovered, Target, Goto, ClientTypes, CallPC
    <2>6. CASE DiscoverTimeout(c)
      BY <1>1, <2>1, <2>6 DEF DiscoverTimeout, Target, Goto, ClientTypes, CallPC
    <2>7. CASE Register(c)
      <3>1. nextID' \in Nat /\ pc' \in [Calls -> CallPC]
        BY <1>1, <2>7 DEF Register, Goto, ClientTypes, CallPC
      <3>2. /\ DOMAIN waiters' = DOMAIN waiters \cup {nextID'}
            /\ \A i \in DOMAIN waiters' : waiters'[i] \in Requests
        BY <1>1, <2>1, <2>7, RegisterWaiter DEF ClientTypes
      <3>3. DOMAIN waiters' \subseteq 1..nextID'
        BY <1>1, <2>7, <3>2 DEF Register, ClientTypes
      <3> QED
        BY <1>1, <2>7, <3>1, <3>2, <3>3 DEF Register, ClientTypes
    <2>8. CASE PostAnswered(c)
      <3>1. Return(c, "answer", request(c)) /\ UNCHANGED nextID
        BY <2>8 DEF PostAnswered
      <3> QED
        BY <1>1, <2>1, <2>8, <3>1, ReturnTypes DEF PostAnswered, ClientTypes
    <2>9. CASE PostAccepted(c)
      <3>1. session(c) \in Requests
        BY <1>1, <2>1, <2>9 DEF PostAccepted, session, ClientTypes
      <3>2. ID(c) \in Nat
        BY <1>1, <2>9, IDRegistered DEF PostAccepted, McpInv, ClientTypes
      <3> QED
        BY <1>1, <2>1, <2>9, <3>1, <3>2 DEF PostAccepted, Goto, ClientTypes, CallPC
    <2>10. CASE PostRefused(c) /\ turn[c] = 1
      BY <1>1, <2>10 DEF PostRefused, Goto, ClientTypes, CallPC
    <2>11. CASE PostRefused(c) /\ turn[c] # 1
      <3>1. Return(c, "error", None) /\ UNCHANGED nextID
        BY <2>11 DEF PostRefused
      <3> QED
        BY <1>1, <2>11, <3>1, ReturnTypes DEF PostRefused, ClientTypes
    <2>12. CASE PostFails(c)
      <3>1. Return(c, "error", None) /\ UNCHANGED nextID
        BY <2>12 DEF PostFails
      <3> QED
        BY <1>1, <2>12, <3>1, ReturnTypes DEF PostFails, ClientTypes
    <2>13. CASE ForgetBridge(c)
      BY <1>1, <2>13 DEF ForgetBridge, Goto, ClientTypes, CallPC
    <2>14. CASE CloseConnection(c)
      BY <1>1, <2>14 DEF CloseConnection, Goto, ClientTypes, CallPC
    <2>15. CASE Accepted(c)
      BY <1>1, <2>15 DEF Accepted, Goto, ClientTypes, CallPC
    <2>16. CASE Receive(c)
      <3>1. /\ Return(c, "answer", channel[request(c)]) /\ UNCHANGED nextID
            /\ channel[request(c)] \in Requests \cup {None}
        BY <1>1, <2>1, <2>16 DEF Receive, ClientTypes
      <3> QED
        BY <1>1, <2>16, <3>1, ReturnTypes DEF Receive, ClientTypes
    <2>17. CASE WaitTimeout(c)
      <3>1. Return(c, "timeout", None) /\ UNCHANGED nextID
        BY <2>17 DEF WaitTimeout
      <3> QED
        BY <1>1, <2>17, <3>1, ReturnTypes DEF WaitTimeout, ClientTypes
    <2> QED
      BY <1>3, <2>2, <2>3, <2>4, <2>5, <2>6, <2>7, <2>8, <2>9, <2>10, <2>11, <2>12, <2>13,
         <2>14, <2>15, <2>16, <2>17 DEF CallStep
  <1>4. ASSUME NEW r \in Requests, Announce(r) \/ Break(r) \/ End(r) PROVE ClientTypes'
    BY <1>1, <1>4 DEF Announce, Break, End, ClientTypes
  <1>5. ASSUME NEW d \in due, Deliver(d) PROVE ClientTypes'
    <2>1. d.to \in Requests
      BY <1>1 DEF ClientTypes
    <2> QED
      BY <1>1, <1>5, <2>1 DEF Deliver, ClientTypes
  <1> QED
    BY <1>2, <1>3, <1>4, <1>5 DEF Next, StreamStep

-----------------------------------------------------------------------------
(* Waiters.                                                                *)

\* The steps of a call that end in Return.
Returns(c) ==
  \E r \in {"error", "timeout", "answer"}, a \in Requests \cup {None} :
    Return(c, r, a) /\ (r = "answer" => a \in {request(c), channel[request(c)]} \ {None})

\* The steps of a call that neither store nor delete a waiter, nor start the
\* second turn: the call goes on to l.
Moves(c, l) == /\ Goto(c, l) /\ UNCHANGED <<nextID, waiters, turn, channel, result, answered>>
               /\ l \in CallPC \ {"done"}
               /\ pc[c] \in {"post", "accepted", "wait", "forget", "close"} =>
                    l \in {"post", "accepted", "wait", "forget", "close"}
               /\ l \in {"post", "accepted", "wait"} => pc[c] \in {"post", "accepted", "wait"}
               /\ pc[c] # "done"

\* What a step does to the waiters: it stores one, deletes those of one call,
\* starts a second turn, or leaves them alone.
LEMMA CallKinds ==
  ASSUME ClientTypes, NEW c \in Calls, CallStep(c)
  PROVE  \/ Register(c)
         \/ CloseConnection(c)
         \/ Returns(c) /\ UNCHANGED <<nextID, turn, channel, due>> /\ pc[c] \in {"post", "wait"}
         \/ \E l \in CallPC : Moves(c, l)
  <1> USE DEF clientVars, callVars, serverVars
  <1>1. CASE Resolve(c) \/ OpenStream(c) \/ NoStream(c) \/ Discovered(c) \/ DiscoverTimeout(c)
    BY <1>1 DEF Resolve, OpenStream, NoStream, Discovered, DiscoverTimeout, Moves, Goto, CallPC
  <1>2. CASE PostAccepted(c) \/ ForgetBridge(c) \/ Accepted(c)
    BY <1>2 DEF PostAccepted, ForgetBridge, Accepted, Moves, Goto, CallPC
  <1>3. CASE PostRefused(c)
    BY <1>3 DEF PostRefused, Moves, Goto, CallPC, Returns
  <1>4. CASE PostAnswered(c) \/ Receive(c)
    <2>1. request(c) \in Requests /\ channel[request(c)] \in Requests \cup {None}
      BY RequestType DEF ClientTypes
    <2>2. request(c) # None
      BY RequestType
    <2>3. CASE PostAnswered(c)
      BY <2>1, <2>2, <2>3 DEF PostAnswered, Returns
    <2>4. CASE Receive(c)
      BY <2>1, <2>4 DEF Receive, Returns
    <2> QED
      BY <1>4, <2>3, <2>4 DEF PostAnswered, Receive
  <1>5. CASE PostFails(c) \/ WaitTimeout(c)
    BY <1>5 DEF PostFails, WaitTimeout, Returns
  <1> QED
    BY <1>1, <1>2, <1>3, <1>4, <1>5 DEF CallStep

\* A request is registered once, and deleted when its call returns.
LEMMA WaiterStep == McpInv /\ [Next]_vars => WaiterInv'
  <1> SUFFICES ASSUME McpInv, [Next]_vars PROVE WaiterInv'
    OBVIOUS
  <1>1. ClientTypes /\ WaiterInv /\ StreamInv
    BY DEF McpInv
  <1>2. CASE UNCHANGED <<waiters, pc, turn>>
    BY <1>1, <1>2 DEF WaiterInv, Registered, request
  <1>3. ASSUME NEW c \in Calls, CallStep(c) PROVE WaiterInv'
    <2>1. CASE Register(c)
      <3>1. pc[c] = "register" /\ pc' = [pc EXCEPT ![c] = "post"] /\ UNCHANGED turn
        BY <2>1 DEF Register, Goto
      <3>2. /\ DOMAIN waiters' = DOMAIN waiters \cup {nextID'} /\ nextID' \notin DOMAIN waiters
            /\ waiters'[nextID'] = request(c)
            /\ \A i \in DOMAIN waiters : waiters'[i] = waiters[i]
        BY <1>1, <2>1, RegisterWaiter
      <3>3. \A i \in DOMAIN waiters : waiters[i] \in Requests /\ waiters[i] # request(c)
        <4>1. ~Registered(request(c))
          BY <1>1, <3>1, RequestType DEF Registered
        <4> QED
          BY <1>1, <4>1 DEF WaiterInv, ClientTypes
      <3>4. \A d \in Calls : request(d)' = request(d)
        BY <3>1 DEF request
      <3>5. \A i \in DOMAIN waiters' : Registered(waiters[i])'
        <4>1. \A r \in Requests : Registered(r) \/ r = request(c) => Registered(r)'
          BY <1>1, <3>1, RequestType DEF Registered, ClientTypes
        <4>2. ASSUME NEW i \in DOMAIN waiters' PROVE Registered(waiters[i])'
          <5>1. PICK r \in Requests : r = waiters'[i] /\ (Registered(r) \/ r = request(c))
            BY <1>1, <3>2, <3>3, RequestType DEF WaiterInv
          <5>2. Registered(r)'
            BY <4>1, <5>1
          <5> QED
            BY <5>1, <5>2 DEF Registered
        <4> QED
          BY <4>2
      <3>6. \A i, j \in DOMAIN waiters' : waiters'[i] = waiters'[j] => i = j
        BY <1>1, <3>2, <3>3 DEF WaiterInv
      <3>7. \A d \in Calls : pc'[d] \in {"post", "accepted", "wait"} =>
              \E i \in DOMAIN waiters' : waiters'[i] = request(d)'
        BY <1>1, <3>1, <3>2, <3>4 DEF WaiterInv, ClientTypes
      <3> QED
        BY <3>5, <3>6, <3>7 DEF WaiterInv, Registered
    <2>2. CASE CloseConnection(c)
      <3>1. /\ pc[c] = "close" /\ turn[c] = 1 /\ UNCHANGED waiters
            /\ turn' = [turn EXCEPT ![c] = 2] /\ pc' = [pc EXCEPT ![c] = "resolve"]
        BY <1>1, <2>2 DEF CloseConnection, Goto, StreamInv, ClearsInv
      <3>2. \A d \in Calls \ {c} : request(d)' = request(d)
        BY <1>1, <3>1 DEF request, ClientTypes
      <3>3. \A r \in Requests : Registered(r) => Registered(r)'
        BY <1>1, <3>1, RequestType DEF Registered, ClientTypes
      <3>4. \A d \in Calls : pc'[d] \in {"post", "accepted", "wait"} =>
              d # c /\ pc[d] \in {"post", "accepted", "wait"}
        BY <1>1, <3>1 DEF ClientTypes
      <3> QED
        BY <1>1, <3>1, <3>2, <3>3, <3>4 DEF WaiterInv, ClientTypes
    <2>3. CASE Returns(c) /\ UNCHANGED <<nextID, turn, channel, due>>
      <3>1. PICK r \in {"error", "timeout", "answer"}, a \in Requests \cup {None} : Return(c, r, a)
        BY <2>3 DEF Returns
      <3>2. /\ pc' = [pc EXCEPT ![c] = "done"]
            /\ \A i : i \in DOMAIN waiters' <=> i \in DOMAIN waiters /\ waiters[i][1] # c
            /\ \A i \in DOMAIN waiters' : waiters'[i] = waiters[i]
        BY <1>1, <2>3, <3>1, ReturnTypes
      <3>3. \A d \in Calls : request(d)' = request(d) /\ request(d)[1] = d
        BY <2>3 DEF request
      <3>4. \A q \in Requests : Registered(q) /\ q[1] # c => Registered(q)'
        BY <1>1, <2>3, <3>2, RequestType DEF Registered, ClientTypes
      <3>5. \A d \in Calls : pc'[d] \in {"post", "accepted", "wait"} =>
              d # c /\ pc[d] \in {"post", "accepted", "wait"}
        BY <1>1, <3>2 DEF ClientTypes
      <3>6. \A i \in DOMAIN waiters' : Registered(waiters[i])'
        BY <1>1, <3>2, <3>4 DEF WaiterInv, ClientTypes, Registered
      <3>7. \A d \in Calls : pc'[d] \in {"post", "accepted", "wait"} =>
              \E i \in DOMAIN waiters' : waiters'[i] = request(d)'
        BY <1>1, <3>2, <3>3, <3>5, RequestType DEF WaiterInv
      <3>8. \A i, j \in DOMAIN waiters' : waiters'[i] = waiters'[j] => i = j
        BY <1>1, <3>2 DEF WaiterInv
      <3> QED
        BY <3>6, <3>7, <3>8 DEF WaiterInv, Registered
    <2>4. CASE \E l \in CallPC : Moves(c, l)
      <3>1. PICK l \in CallPC : Moves(c, l)
        BY <2>4
      <3>2. \A d \in Calls : request(d)' = request(d)
        BY <3>1 DEF request, Moves
      <3>3. \A r \in Requests : Registered(r) => Registered(r)'
        BY <1>1, <3>1, RequestType DEF Registered, ClientTypes, Moves, Goto
      <3>4. \A d \in Calls : pc'[d] \in {"post", "accepted", "wait"} =>
              pc[d] \in {"post", "accepted", "wait"}
        BY <1>1, <3>1 DEF ClientTypes, Moves, Goto
      <3> QED
        BY <1>1, <3>1, <3>2, <3>3, <3>4 DEF WaiterInv, ClientTypes, Moves
    <2> QED
      BY <1>1, <1>3, <2>1, <2>2, <2>3, <2>4, CallKinds
  <1> QED
    BY <1>2, <1>3 DEF Next, StreamStep, Announce, Deliver, Break, End, callVars, clientVars, vars

-----------------------------------------------------------------------------
(* Answers.                                                                *)

\* Only a request that the server accepted makes an answer due.
LEMMA DueGrows ==
  ASSUME ClientTypes, WaiterInv, NEW c \in Calls, CallStep(c)
  PROVE  \/ UNCHANGED due
         \/ /\ PostAccepted(c)
            /\ \E d \in [id : Nat, to : Requests, over : Requests] :
                 /\ d.id \in DOMAIN waiters /\ waiters[d.id] = request(c)
                 /\ d.to = request(c) /\ d.over = session(c) /\ due' = due \cup {d}
  <1> USE DEF clientVars, callVars, serverVars
  <1>1. CASE PostAccepted(c)
    <2>1. session(c) \in Requests /\ request(c) \in Requests
      BY <1>1, RequestType DEF PostAccepted, session, ClientTypes
    <2>2. ID(c) \in DOMAIN waiters /\ waiters[ID(c)] = request(c) /\ ID(c) \in Nat
      BY <1>1, IDRegistered DEF PostAccepted, ClientTypes
    <2>3. due' = due \cup {[id |-> ID(c), to |-> request(c), over |-> session(c)]}
      BY <1>1 DEF PostAccepted
    <2> QED
      BY <1>1, <2>1, <2>2, <2>3
  <1>2. CASE ~PostAccepted(c)
    BY <1>2 DEF CallStep, Resolve, OpenStream, NoStream, Discovered, DiscoverTimeout, Register,
                PostAnswered, PostRefused, PostFails, ForgetBridge, CloseConnection, Accepted,
                Receive, WaitTimeout
  <1> QED
    BY <1>1, <1>2

\* What a call does leaves the answers that are due addressed.
LEMMA StillAddressed ==
  ASSUME ClientTypes, WaiterInv, NEW c \in Calls, CallStep(c), NEW d \in due, Addressed(d)
  PROVE  Addressed(d)'
  <1>1. d.to \in Requests /\ d.to[1] \in Calls /\ d.id \in Nat
    BY RequestType DEF ClientTypes
  <1>2. CASE Register(c)
    <2>1. pc' = [pc EXCEPT ![c] = "post"] /\ pc[c] = "register"
      BY <1>2 DEF Register, Goto
    <2> QED
      BY <1>1, <1>2, <2>1, RegisterWaiter DEF Addressed, ClientTypes
  <1>3. CASE CloseConnection(c)
    <2>1. /\ pc' = [pc EXCEPT ![c] = "resolve"] /\ pc[c] = "close"
          /\ UNCHANGED <<waiters, nextID>>
      BY <1>3 DEF CloseConnection, Goto
    <2> QED
      BY <1>1, <2>1 DEF Addressed, ClientTypes
  <1>4. CASE Returns(c) /\ UNCHANGED <<nextID, turn, channel, due>>
    <2>1. PICK r \in {"error", "timeout", "answer"}, a \in Requests \cup {None} : Return(c, r, a)
      BY <1>4 DEF Returns
    <2>2. /\ pc' = [pc EXCEPT ![c] = "done"]
          /\ \A i : i \in DOMAIN waiters' <=> i \in DOMAIN waiters /\ waiters[i][1] # c
          /\ \A i \in DOMAIN waiters' : waiters'[i] = waiters[i]
      BY <1>4, <2>1, ReturnTypes
    <2> QED
      BY <1>1, <1>4, <2>2 DEF Addressed, ClientTypes
  <1>5. CASE \E l \in CallPC : Moves(c, l)
    BY <1>1, <1>5 DEF Addressed, ClientTypes, Moves, Goto
  <1> QED
    BY <1>2, <1>3, <1>4, <1>5, CallKinds

\* An answer reaches the request it belongs to or nobody.
LEMMA AnswerStep == McpInv /\ [Next]_vars => AnswerInv'
  <1> SUFFICES ASSUME McpInv, [Next]_vars PROVE AnswerInv'
    OBVIOUS
  <1>1. ClientTypes /\ WaiterInv /\ AnswerInv /\ StreamInv
    BY DEF McpInv
  <1>2. CASE UNCHANGED <<due, clientVars, callVars>>
    BY <1>1, <1>2 DEF AnswerInv, Addressed, request, clientVars, callVars
  <1>3. ASSUME NEW c \in Calls, CallStep(c) PROVE AnswerInv'
    <2>1. \A d \in due' : Addressed(d)'
      <3>1. \A d \in due : Addressed(d)'
        BY <1>1, <1>3, StillAddressed DEF AnswerInv
      <3>2. CASE UNCHANGED due
        BY <3>1, <3>2
      <3>3. ASSUME NEW d \in [id : Nat, to : Requests, over : Requests],
                   PostAccepted(c), d.id \in DOMAIN waiters, waiters[d.id] = request(c),
                   d.to = request(c), due' = due \cup {d}
            PROVE  \A e \in due' : Addressed(e)'
        <4>1. UNCHANGED <<waiters, nextID>>
          BY <3>3 DEF PostAccepted, clientVars
        <4>2. Addressed(d)'
          BY <1>1, <3>3, <4>1 DEF Addressed, ClientTypes
        <4> QED
          BY <3>1, <3>3, <4>2
      <3> QED
        BY <1>1, <1>3, <3>2, <3>3, DueGrows
    <2>2. \A r \in Requests : channel'[r] \in {None, r}
      <3>1. UNCHANGED channel
        BY <1>3 DEF CallStep, Resolve, OpenStream, NoStream, Discovered, DiscoverTimeout,
                    Register, PostAnswered, PostAccepted, PostRefused, PostFails, ForgetBridge,
                    CloseConnection, Accepted, Receive, WaitTimeout, clientVars
      <3> QED
        BY <1>1, <3>1 DEF AnswerInv
    <2>3. ASSUME NEW d \in Calls
          PROVE  /\ result'[d] # "none" => pc'[d] = "done"
                 /\ result'[d] = "answer" => answered'[d] = request(d)'
      <3>1. CASE Register(c) \/ CloseConnection(c)
        BY <1>1, <3>1 DEF AnswerInv, ClientTypes, Register, CloseConnection, Goto, request
      <3>2. CASE Returns(c) /\ UNCHANGED <<nextID, turn, channel, due>>
        <4>1. PICK r \in {"error", "timeout", "answer"}, a \in Requests \cup {None} :
                Return(c, r, a) /\ (r = "answer" => a \in {request(c), channel[request(c)]} \ {None})
          BY <3>2 DEF Returns
        <4>2. r = "answer" => a = request(c)
          BY <1>1, <4>1, RequestType DEF AnswerInv
        <4>3. \A e \in Calls : request(e)' = request(e)
          BY <3>2 DEF request
        <4> QED
          BY <1>1, <4>1, <4>2, <4>3 DEF AnswerInv, ClientTypes, Return, Goto
      <3>3. CASE \E l \in CallPC : Moves(c, l)
        BY <1>1, <3>3 DEF AnswerInv, ClientTypes, Moves, Goto, request
      <3> QED
        BY <1>1, <1>3, <3>1, <3>2, <3>3, CallKinds
    <2> QED
      BY <2>1, <2>2, <2>3 DEF AnswerInv
  <1>4. ASSUME NEW d \in due, Deliver(d) PROVE AnswerInv'
    <2>1. /\ due' \subseteq due
          /\ UNCHANGED <<pc, turn, result, answered, waiters, nextID>>
      BY <1>4 DEF Deliver, callVars
    <2>2. \A r \in Requests : channel'[r] \in {None, r}
      <3>1. Addressed(d)
        BY <1>1 DEF AnswerInv
      <3> QED
        BY <1>1, <1>4, <3>1 DEF Deliver, AnswerInv, Addressed, ClientTypes
    <2>3. \A e \in due' : Addressed(e)'
      BY <1>1, <2>1 DEF AnswerInv, Addressed
    <2> QED
      BY <1>1, <2>1, <2>2, <2>3 DEF AnswerInv, request
  <1> QED
    BY <1>2, <1>3, <1>4
       DEF Next, StreamStep, Announce, Break, End, callVars, clientVars, serverVars, vars

-----------------------------------------------------------------------------
(* Streams, promises, and a server that does nothing wrong.                *)

\* A stream that was opened stays known, a URL that was announced stays
\* announced, and a call never goes back to its first turn.
LEMMA StreamsGrow ==
  ASSUME ClientTypes, StreamInv, [Next]_vars
  PROVE  /\ announced \subseteq announced' /\ ended \subseteq ended'
         /\ \A r \in Requests : stream[r] # "none" => stream'[r] # "none"
         /\ \A c \in Calls : turn[c] <= turn'[c]
         /\ UNCHANGED faults
  <1> USE DEF clientVars, callVars, serverVars
  <1>1. CASE UNCHANGED vars
    BY <1>1 DEF vars, ClientTypes
  <1>2. ASSUME NEW c \in Calls, CallStep(c)
        PROVE  /\ announced \subseteq announced' /\ ended \subseteq ended'
               /\ \A r \in Requests : stream[r] # "none" => stream'[r] # "none"
               /\ \A d \in Calls : turn[d] <= turn'[d]
               /\ UNCHANGED faults
    <2>1. CASE OpenStream(c)
      BY <2>1 DEF OpenStream, ClientTypes
    <2>2. CASE CloseConnection(c)
      BY <2>2 DEF CloseConnection, ClientTypes, StreamInv, ClearsInv
    <2>3. CASE ~OpenStream(c) /\ ~CloseConnection(c)
      <3>1. UNCHANGED <<announced, ended, stream, turn, faults>>
        BY <1>2, <2>3 DEF CallStep, Resolve, NoStream, Discovered, DiscoverTimeout, Register,
             PostAnswered, PostAccepted, PostRefused, PostFails, ForgetBridge, Accepted,
             Receive, WaitTimeout
      <3> QED
        BY <3>1 DEF ClientTypes
    <2> QED
      BY <2>1, <2>2, <2>3
  <1>3. ASSUME NEW r \in Requests, Announce(r) \/ Break(r) \/ End(r)
        PROVE  /\ announced \subseteq announced' /\ ended \subseteq ended'
               /\ \A q \in Requests : stream[q] # "none" => stream'[q] # "none"
               /\ \A d \in Calls : turn[d] <= turn'[d]
               /\ UNCHANGED faults
    BY <1>3 DEF Announce, Break, End, ClientTypes
  <1>4. ASSUME NEW d \in due, Deliver(d)
        PROVE  /\ announced \subseteq announced' /\ ended \subseteq ended'
               /\ \A q \in Requests : stream[q] # "none" => stream'[q] # "none"
               /\ \A e \in Calls : turn[e] <= turn'[e]
               /\ UNCHANGED faults
    BY <1>4 DEF Deliver, ClientTypes
  <1> QED
    BY <1>1, <1>2, <1>3, <1>4 DEF Next, StreamStep

\* What the two maps and the targets can hold after a step of a call.
LEMMA MapsStep ==
  ASSUME ClientTypes, StreamInv, [Next]_vars
  PROVE  MapsInv'
  <1> USE DEF clientVars, callVars, serverVars, StreamInv, MapsInv
  <1>1. CASE UNCHANGED vars
    BY <1>1 DEF vars
  <1>2. ASSUME NEW c \in Calls, CallStep(c) PROVE MapsInv'
    <2>1. request(c) \in Requests /\ request(c)[1] = c /\ request(c)[2] = turn[c] /\ None \notin Requests
      BY RequestType, McpClientAssumption
    <2>2. CASE OpenStream(c)
      BY <2>1, <2>2, RequestType DEF OpenStream, ClientTypes
    <2>3. CASE CloseConnection(c)
      <3>1. turn[c] = 1
        BY <2>3 DEF CloseConnection, ClearsInv
      <3>2. \A r \in Requests : stream'[r] # "none" => stream[r] # "none" \/ r = connection
        BY <2>3 DEF CloseConnection
      <3>3. \A r \in Requests : stream[r] # "none" => stream'[r] # "none"
        BY <2>3 DEF CloseConnection
      <3>4. \A d \in Calls : turn[d] <= turn'[d] /\ turn[d] \in Nat /\ turn'[d] \in Nat
        BY <2>3, <3>1 DEF CloseConnection, ClientTypes
      <3>5. \A r \in Requests : stream'[r] # "none" => r[2] <= turn'[r[1]]
        BY <2>1, <3>2, <3>4, RequestType
      <3> QED
        BY <2>1, <2>3, <3>3, <3>5 DEF CloseConnection
    <2>4. CASE Resolve(c)
      BY <2>1, <2>4 DEF Resolve, Target, ClientTypes
    <2>5. CASE NoStream(c)
      BY <2>1, <2>5 DEF NoStream, Target, ClientTypes
    <2>6. CASE Discovered(c)
      BY <2>1, <2>6 DEF Discovered, Target, ClientTypes
    <2>7. CASE DiscoverTimeout(c)
      BY <2>1, <2>7 DEF DiscoverTimeout, Target, ClientTypes
    <2>8. CASE ForgetBridge(c)
      BY <2>8 DEF ForgetBridge
    <2>9. CASE \/ Register(c) \/ PostAnswered(c) \/ PostAccepted(c) \/ PostRefused(c)
               \/ PostFails(c) \/ Accepted(c) \/ Receive(c) \/ WaitTimeout(c)
      BY <2>9 DEF Register, PostAnswered, PostAccepted, PostRefused, PostFails, Accepted,
                  Receive, WaitTimeout
    <2> QED
      BY <1>2, <2>2, <2>3, <2>4, <2>5, <2>6, <2>7, <2>8, <2>9 DEF CallStep
  <1>3. ASSUME NEW r \in Requests, Announce(r) \/ Break(r) \/ End(r) PROVE MapsInv'
    BY <1>3 DEF Announce, Break, End, ClientTypes
  <1>4. ASSUME NEW d \in due, Deliver(d) PROVE MapsInv'
    BY <1>4 DEF Deliver
  <1> QED
    BY <1>1, <1>2, <1>3, <1>4 DEF Next, StreamStep

\* A call that retries deleted the bridge that it had found itself.
LEMMA ClearsStep ==
  ASSUME ClientTypes, StreamInv, [Next]_vars
  PROVE  ClearsInv'
  <1> USE DEF clientVars, callVars, serverVars, StreamInv, ClearsInv
  <1>1. CASE UNCHANGED vars
    BY <1>1 DEF vars
  <1>2. ASSUME NEW c \in Calls, CallStep(c) PROVE ClearsInv'
    <2>1. request(c) \in Requests /\ request(c) = <<c, turn[c]>> /\ turn[c] \in 1..2 /\ None \notin Requests
      BY RequestType, McpClientAssumption DEF request
    <2>2. \A d \in Calls : <<d, 1>> \in Requests /\ <<d, 2>> \in Requests
      BY RequestType
    <2>3. CASE CloseConnection(c)
      BY <2>1, <2>3 DEF CloseConnection, Goto, ClientTypes
    <2>t. ASSUME NEW v \in Requests \cup {None}, Target(c, v), NEW d \in Calls
          PROVE  target'[<<d, 2>>] = IF d = c /\ turn[c] = 2 THEN v ELSE target[<<d, 2>>]
      BY <2>1, <2>2, <2>t DEF Target, ClientTypes
    <2>4. CASE Resolve(c)
      <3>1. CASE bridge # None
        <4>1. /\ Target(c, bridge) /\ pc' = [pc EXCEPT ![c] = "register"] /\ pc[c] = "resolve"
              /\ UNCHANGED <<bridge, turn>> /\ bridge \in Requests
          BY <2>4, <3>1 DEF Resolve, Goto, ClientTypes
        <4>2. ASSUME NEW d \in Calls PROVE target'[<<d, 2>>] # <<d, 1>>
          <5>1. target'[<<d, 2>>] = IF d = c /\ turn[c] = 2 THEN bridge ELSE target[<<d, 2>>]
            BY <2>t, <4>1
          <5> QED
            BY <5>1
        <4> QED
          BY <4>1, <4>2 DEF ClientTypes
      <3>2. CASE bridge = None
        BY <2>4, <3>2 DEF Resolve, Goto, ClientTypes
      <3> QED
        BY <3>1, <3>2
    <2>5. CASE NoStream(c) \/ DiscoverTimeout(c)
      <3>1. /\ Target(c, None) /\ pc' = [pc EXCEPT ![c] = "register"]
            /\ UNCHANGED <<bridge, turn>>
        BY <2>5 DEF NoStream, DiscoverTimeout, Goto
      <3>2. ASSUME NEW d \in Calls PROVE target'[<<d, 2>>] # <<d, 1>>
        <4>1. target'[<<d, 2>>] = IF d = c /\ turn[c] = 2 THEN None ELSE target[<<d, 2>>]
          BY <2>t, <3>1
        <4> QED
          BY <2>1, <2>2, <4>1
      <3> QED
        BY <3>1, <3>2 DEF ClientTypes
    <2>6. CASE Discovered(c)
      <3>1. /\ Target(c, <<c, turn[c]>>) /\ bridge' = <<c, turn[c]>>
            /\ pc' = [pc EXCEPT ![c] = "register"] /\ UNCHANGED turn
        BY <2>1, <2>6 DEF Discovered, Goto
      <3>2. ASSUME NEW d \in Calls PROVE target'[<<d, 2>>] # <<d, 1>>
        <4>1. /\ Target(c, request(c)) /\ request(c) \in Requests
              /\ request(c) = <<c, turn[c]>>
          BY <2>1, <3>1
        <4>2. target'[<<d, 2>>] =
                IF d = c /\ turn[c] = 2 THEN request(c) ELSE target[<<d, 2>>]
          BY <2>t, <4>1
        <4> QED
          BY <4>1, <4>2
      <3>3. \A d \in Calls : bridge' = <<d, 1>> => d = c /\ turn[c] = 1
        BY <3>1
      <3> QED
        BY <3>1, <3>2, <3>3 DEF ClientTypes
    <2>7. CASE ForgetBridge(c)
      <3>1. \A d \in Calls : bridge' # <<d, 1>>
        BY <2>1, <2>2, <2>7 DEF ForgetBridge
      <3> QED
        BY <2>7, <3>1 DEF ForgetBridge, Goto, ClientTypes
    <2>8. CASE OpenStream(c) \/ Register(c) \/ PostAccepted(c) \/ Accepted(c)
      <3>1. CASE OpenStream(c)
        BY <3>1 DEF OpenStream, Goto, ClientTypes
      <3>2. CASE Register(c)
        BY <3>2 DEF Register, Goto, ClientTypes
      <3>3. CASE PostAccepted(c)
        BY <3>3 DEF PostAccepted, Goto, ClientTypes
      <3>4. CASE Accepted(c)
        BY <3>4 DEF Accepted, Goto, ClientTypes
      <3> QED
        BY <2>8, <3>1, <3>2, <3>3, <3>4
    <2>9. CASE PostAnswered(c) \/ PostFails(c) \/ Receive(c) \/ WaitTimeout(c)
      <3>1. CASE PostAnswered(c)
        BY <3>1 DEF PostAnswered, Return, Goto, ClientTypes
      <3>2. CASE PostFails(c)
        BY <3>2 DEF PostFails, Return, Goto, ClientTypes
      <3>3. CASE Receive(c)
        BY <3>3 DEF Receive, Return, Goto, ClientTypes
      <3>4. CASE WaitTimeout(c)
        BY <3>4 DEF WaitTimeout, Return, Goto, ClientTypes
      <3> QED
        BY <2>9, <3>1, <3>2, <3>3, <3>4
    <2>10. CASE PostRefused(c)
      BY <2>10 DEF PostRefused, Return, Goto, ClientTypes
    <2> QED
      BY <1>2, <2>3, <2>4, <2>5, <2>6, <2>7, <2>8, <2>9, <2>10 DEF CallStep
  <1>3. ASSUME NEW r \in Requests, Announce(r) \/ Break(r) \/ End(r) PROVE ClearsInv'
    BY <1>3 DEF Announce, Break, End
  <1>4. ASSUME NEW d \in due, Deliver(d) PROVE ClearsInv'
    BY <1>4 DEF Deliver
  <1> QED
    BY <1>1, <1>2, <1>3, <1>4 DEF Next, StreamStep

\* A call closes the stream that is registered, its own or that of a rival, and
\* takes its second turn.
LEMMA ClosedStep ==
  ASSUME ClientTypes, StreamInv, [Next]_vars
  PROVE  ClosedInv'
  <1> USE DEF clientVars, callVars, serverVars, StreamInv, ClosedInv
  <1>1. CASE UNCHANGED <<faults, stream, turn>>
    BY <1>1
  <1>2. ASSUME NEW c \in Calls, OpenStream(c) PROVE ClosedInv'
    BY <1>2 DEF OpenStream, ClientTypes
  <1>3. ASSUME NEW c \in Calls, CloseConnection(c) PROVE ClosedInv'
    <2>1. turn[c] = 1 /\ turn' = [turn EXCEPT ![c] = 2] /\ UNCHANGED faults
      BY <1>3 DEF CloseConnection, ClearsInv
    <2>2. SUFFICES ASSUME "drops" \notin faults, NEW r \in Requests, stream'[r] = "closed"
                   PROVE  (\E d \in Calls \ {r[1]} : turn'[d] = 2) \/ (r[2] = 1 /\ turn'[r[1]] = 2)
      BY <2>1
    <2>3. r[1] \in Calls /\ r[2] \in 1..2
      BY RequestType
    <2>4. CASE r = connection
      <3>1. r[2] <= turn[r[1]]
        BY <2>4, McpClientAssumption DEF MapsInv
      <3>2. turn'[c] = 2
        BY <2>1 DEF ClientTypes
      <3>3. CASE r[1] = c
        BY <2>1, <2>3, <3>1, <3>2, <3>3
      <3> QED
        BY <3>2, <3>3
    <2>5. CASE r # connection
      <3>1. stream[r] = "closed"
        BY <1>3, <2>2, <2>5 DEF CloseConnection
      <3> QED
        BY <2>1, <2>2, <2>3, <3>1 DEF ClientTypes
    <2> QED
      BY <2>4, <2>5
  <1>4. ASSUME NEW r \in Requests, Break(r) PROVE ClosedInv'
    BY <1>4 DEF Break
  <1> QED
    BY <1>1, <1>2, <1>3, <1>4
       DEF vars, Next, StreamStep, CallStep, Announce, Deliver, End, Resolve, NoStream, Discovered,
           DiscoverTimeout, Register, PostAnswered, PostAccepted, PostRefused, PostFails,
           ForgetBridge, Accepted, Receive, WaitTimeout

\* A call changes nothing of another one but the maps they share.
LEMMA OthersUntouched ==
  ASSUME ClientTypes, NEW c \in Calls, CallStep(c), NEW e \in Calls, e # c
  PROVE  /\ pc'[e] = pc[e] /\ turn'[e] = turn[e] /\ result'[e] = result[e]
         /\ request(e)' = request(e) /\ session(e)' = session(e)
  <1> USE DEF clientVars, callVars, serverVars
  <1>1. request(e) # request(c) /\ request(e) \in Requests
    BY RequestType
  <1>2. CASE Resolve(c) \/ NoStream(c) \/ Discovered(c) \/ DiscoverTimeout(c)
    <2>1. /\ pc'[e] = pc[e] /\ turn'[e] = turn[e] /\ result'[e] = result[e]
      BY <1>2 DEF Resolve, NoStream, Discovered, DiscoverTimeout, Goto, ClientTypes
    <2>2. target'[request(e)] = target[request(e)]
      BY <1>1, <1>2 DEF Resolve, NoStream, Discovered, DiscoverTimeout, Target, ClientTypes
    <2> QED
      BY <2>1, <2>2 DEF request, session
  <1>3. CASE OpenStream(c) \/ Register(c) \/ PostAccepted(c) \/ ForgetBridge(c) \/ Accepted(c)
    BY <1>3 DEF OpenStream, Register, PostAccepted, ForgetBridge, Accepted, Goto, ClientTypes,
                request, session
  <1>4. CASE CloseConnection(c)
    BY <1>4 DEF CloseConnection, Goto, ClientTypes, request, session
  <1>5. CASE PostAnswered(c) \/ PostRefused(c) \/ PostFails(c) \/ Receive(c) \/ WaitTimeout(c)
    BY <1>5 DEF PostAnswered, PostRefused, PostFails, Receive, WaitTimeout, Return, Goto,
                ClientTypes, request, session
  <1> QED
    BY <1>2, <1>3, <1>4, <1>5 DEF CallStep

\* The server and the readers change nothing of a call.
LEMMA CallsUntouched ==
  ASSUME NEW e \in Calls, UNCHANGED callVars
  PROVE  /\ pc'[e] = pc[e] /\ turn'[e] = turn[e] /\ result'[e] = result[e]
         /\ request(e)' = request(e) /\ session(e)' = session(e)
  BY DEF callVars, request, session

\* An answer is due until the reader has put it on the channel of its request,
\* which is registered as long as its call waits.
LEMMA PromiseStep ==
  ASSUME ClientTypes, WaiterInv, AnswerInv, PromiseInv, [Next]_vars
  PROVE  PromiseInv'
  <1>1. CASE UNCHANGED <<due, channel, callVars>>
    BY <1>1 DEF PromiseInv, callVars, request, session
  <1>2. ASSUME NEW c \in Calls, CallStep(c) PROVE PromiseInv'
    <2> SUFFICES ASSUME NEW e \in Calls, pc'[e] \in {"accepted", "wait"}
                 PROVE  \/ channel'[request(e)'] # None
                        \/ \E d \in due' : d.to = request(e)' /\ d.over = session(e)'
      BY DEF PromiseInv
    <2>1. due \subseteq due'
      BY <1>2, DueGrows
    <2>2. UNCHANGED channel
      BY <1>2 DEF CallStep, Resolve, OpenStream, NoStream, Discovered, DiscoverTimeout,
                  Register, PostAnswered, PostAccepted, PostRefused, PostFails, ForgetBridge,
                  CloseConnection, Accepted, Receive, WaitTimeout, clientVars
    <2>3. CASE e # c
      BY <1>2, <2>1, <2>2, <2>3, OthersUntouched DEF PromiseInv
    <2>4. CASE e = c
      <3>1. PostAccepted(c) \/ Accepted(c)
        BY <1>2, <2>4 DEF CallStep, Resolve, OpenStream, NoStream, Discovered, DiscoverTimeout,
             Register, PostAnswered, PostRefused, PostFails, ForgetBridge, CloseConnection,
             Receive, WaitTimeout, Return, Goto, ClientTypes
      <3>2. /\ request(c)' = request(c) /\ session(c)' = session(c)
            /\ Accepted(c) => pc[c] = "accepted"
        BY <3>1 DEF PostAccepted, Accepted, request, session
      <3>3. CASE PostAccepted(c)
        <4>1. [id |-> ID(c), to |-> request(c), over |-> session(c)] \in due'
          BY <3>3 DEF PostAccepted
        <4> QED
          BY <2>4, <3>2, <4>1
      <3>4. CASE Accepted(c)
        BY <2>1, <2>2, <2>4, <3>2, <3>4 DEF PromiseInv
      <3> QED
        BY <3>1, <3>3, <3>4
    <2> QED
      BY <2>3, <2>4
  <1>3. ASSUME NEW d \in due, Deliver(d) PROVE PromiseInv'
    <2> SUFFICES ASSUME NEW e \in Calls, pc'[e] \in {"accepted", "wait"}
                 PROVE  \/ channel'[request(e)'] # None
                        \/ \E f \in due' : f.to = request(e)' /\ f.over = session(e)'
      BY DEF PromiseInv
    <2>1. /\ pc'[e] = pc[e] /\ request(e)' = request(e) /\ session(e)' = session(e)
          /\ due' = due \ {d}
      BY <1>3, CallsUntouched DEF Deliver
    <2>2. /\ request(e) \in Requests /\ request(e)[1] = e /\ None \notin Requests
          /\ d.to \in Requests
      BY RequestType DEF ClientTypes
    <2>3. CASE channel[request(e)] # None
      BY <1>3, <2>1, <2>2, <2>3 DEF Deliver, ClientTypes
    <2>4. CASE channel[request(e)] = None /\ d.to = request(e)
      <3>1. d.id \in DOMAIN waiters /\ waiters[d.id] = request(e)
        BY <2>1, <2>2, <2>4 DEF AnswerInv, Addressed
      <3>2. channel' = [channel EXCEPT ![request(e)] = d.to]
        BY <1>3, <2>4, <3>1 DEF Deliver
      <3> QED
        BY <2>1, <2>2, <2>4, <3>2 DEF ClientTypes
    <2>5. CASE channel[request(e)] = None /\ d.to # request(e)
      BY <2>1, <2>5 DEF PromiseInv
    <2> QED
      BY <2>3, <2>4, <2>5
  <1> QED
    BY <1>1, <1>2, <1>3
       DEF Next, StreamStep, Announce, Break, End, clientVars, callVars, serverVars, vars

\* A call that gives up had posted to a session whose stream is closed.
LEMMA TimeoutOnClosed ==
  ASSUME ClientTypes, StreamInv, PromiseInv, NEW c \in Calls, WaitTimeout(c),
         "slow" \notin faults
  PROVE  session(c) \in Requests /\ stream[session(c)] = "closed"
  <1>1. pc[c] = "wait" /\ ~OnItsWay(c)
    BY DEF WaitTimeout
  <1>2. PICK d \in due : d.to = request(c) /\ d.over = session(c)
    BY <1>1 DEF PromiseInv, OnItsWay
  <1>3. session(c) \in Requests /\ stream[session(c)] # "open"
    BY <1>1, <1>2 DEF OnItsWay, ClientTypes
  <1>4. stream[session(c)] # "none"
    BY <1>3, RequestType DEF session, StreamInv, MapsInv
  <1> QED
    BY <1>3, <1>4 DEF ClientTypes

\* A server that works, with or without an event stream, never makes a call
\* clear the cache.
LEMMA HealthyStep == McpInv /\ [Next]_vars => HealthyInv' /\ HealthyServerAnswers'
  <1> SUFFICES ASSUME McpInv, [Next]_vars, faults' \subseteq {"nosse"}
               PROVE  \A e \in Calls : /\ turn'[e] = 1 /\ pc'[e] \notin {"forget", "close"}
                                       /\ result'[e] \notin {"error", "timeout"}
    BY DEF HealthyInv, HealthyServerAnswers
  <1>1. ClientTypes /\ StreamInv /\ PromiseInv
    BY DEF McpInv
  <1>2. faults \subseteq {"nosse"}
    BY <1>1, StreamsGrow
  <1>3. \A e \in Calls : /\ turn[e] = 1 /\ pc[e] \notin {"forget", "close"}
                         /\ result[e] \notin {"error", "timeout"}
    BY <1>2 DEF McpInv, HealthyInv, HealthyServerAnswers
  <1>4. \A r \in Requests : stream[r] # "closed"
    <2>1. \A r \in Requests : r[1] \in Calls
      BY DEF Requests
    <2> QED
      BY <1>1, <1>2, <1>3, <2>1 DEF StreamInv, ClosedInv
  <1>5. ended = {}
    BY <1>1, <1>2 DEF StreamInv, MapsInv
  <1>6. CASE UNCHANGED callVars
    BY <1>3, <1>6 DEF callVars
  <1>7. ASSUME NEW c \in Calls, CallStep(c), NEW e \in Calls
        PROVE  /\ turn'[e] = 1 /\ pc'[e] \notin {"forget", "close"}
               /\ result'[e] \notin {"error", "timeout"}
    <2>1. CASE e # c
      BY <1>1, <1>3, <1>7, <2>1, OthersUntouched
    <2>2. CASE e = c
      <3>1. ~PostRefused(c)
        <4>1. session(c) # None => session(c) \in Requests
          BY <1>1, RequestType DEF session, ClientTypes
        <4> QED
          BY <1>2, <1>4, <1>5, <4>1 DEF PostRefused
      <3>2. ~PostFails(c) /\ ~ForgetBridge(c) /\ ~CloseConnection(c)
        BY <1>2, <1>3 DEF PostFails, ForgetBridge, CloseConnection
      <3>3. ~WaitTimeout(c)
        BY <1>1, <1>2, <1>4, TimeoutOnClosed
      <3>4. CASE PostAnswered(c) \/ Receive(c)
        BY <1>1, <1>3, <2>2, <3>4 DEF PostAnswered, Receive, Return, Goto, ClientTypes
      <3>5. CASE \/ Resolve(c) \/ OpenStream(c) \/ NoStream(c) \/ Discovered(c)
                 \/ DiscoverTimeout(c) \/ Register(c) \/ PostAccepted(c) \/ Accepted(c)
        BY <1>1, <1>3, <2>2, <3>5
           DEF Resolve, OpenStream, NoStream, Discovered, DiscoverTimeout, Register,
               PostAccepted, Accepted, Goto, ClientTypes
      <3> QED
        BY <1>7, <3>1, <3>2, <3>3, <3>4, <3>5 DEF CallStep
    <2> QED
      BY <2>1, <2>2
  <1> QED
    BY <1>6, <1>7
       DEF Next, StreamStep, Announce, Deliver, Break, End, callVars, vars

\* A stream is closed by a rival that retries, or by the call that opened it in
\* its first turn, which does not use it in its second.
LEMMA LossStep == McpInv /\ [Next]_vars => LossNeedsRival'
  <1> DEFINE Rival(c) == \E d \in Calls \ {c} : turn[d] = 2 \/ session(c) \in {<<d, 1>>, <<d, 2>>}
  <1> SUFFICES ASSUME McpInv, [Next]_vars, faults' \subseteq {"expires"},
                      NEW e \in Calls, result'[e] = "timeout"
               PROVE  \E d \in Calls \ {e} : turn'[d] = 2 \/ session(e)' \in {<<d, 1>>, <<d, 2>>}
    BY DEF LossNeedsRival
  <1>1. ClientTypes /\ AnswerInv /\ StreamInv /\ PromiseInv
    BY DEF McpInv
  <1>2. faults \subseteq {"expires"}
    BY <1>1, StreamsGrow
  <1>3. result[e] = "timeout" => Rival(e) /\ pc[e] = "done"
    BY <1>1, <1>2 DEF McpInv, LossNeedsRival, AnswerInv
  <1>4. \A d \in Calls : turn[d] = 2 => turn'[d] = 2
    <2>1. \A d \in Calls : turn[d] <= turn'[d] /\ turn'[d] \in 1..2
      <3>1. ClientTypes'
        BY ClientTypesStep
      <3> QED
        BY <1>1, <3>1, StreamsGrow DEF ClientTypes
    <2> QED
      BY <2>1
  <1>5. CASE UNCHANGED callVars
    <2>1. result[e] = "timeout" /\ session(e)' = session(e)
      BY <1>5, CallsUntouched DEF callVars
    <2> QED
      BY <1>3, <1>4, <2>1
  <1>6. ASSUME NEW c \in Calls, CallStep(c)
        PROVE  \E d \in Calls \ {e} : turn'[d] = 2 \/ session(e)' \in {<<d, 1>>, <<d, 2>>}
    <2>1. CASE e # c
      <3>1. result[e] = "timeout" /\ session(e)' = session(e)
        BY <1>1, <1>6, <2>1, OthersUntouched
      <3> QED
        BY <1>3, <1>4, <3>1
    <2>2. CASE e = c /\ ~WaitTimeout(c)
      <3>1. pc[c] # "done"
        BY <1>6 DEF CallStep, Resolve, OpenStream, NoStream, Discovered, DiscoverTimeout,
             Register, PostAnswered, PostAccepted, PostRefused, PostFails, ForgetBridge,
             CloseConnection, Accepted, Receive, WaitTimeout
      <3>2. result'[c] = result[c] \/ result'[c] \in {"answer", "error"}
        BY <1>1, <1>6, <2>2 DEF CallStep, Resolve, OpenStream, NoStream, Discovered,
             DiscoverTimeout, Register, PostAnswered, PostAccepted, PostRefused, PostFails,
             ForgetBridge, CloseConnection, Accepted, Receive, Return, ClientTypes
      <3> QED
        BY <1>3, <2>2, <3>1, <3>2
    <2>3. CASE e = c /\ WaitTimeout(c)
      <3>1. session(c) \in Requests /\ stream[session(c)] = "closed"
        BY <1>1, <1>2, <2>3, TimeoutOnClosed
      <3>2. session(c)' = session(c)
        BY <2>3 DEF WaitTimeout, session, request
      <3> DEFINE d == session(c)[1]
      <3>3. d \in Calls /\ session(c)[2] \in 1..2 /\ session(c) = <<d, session(c)[2]>>
        BY <1>1, <3>1, RequestType
      <3>4. \/ \E f \in Calls \ {d} : turn[f] = 2
            \/ session(c)[2] = 1 /\ turn[d] = 2
        BY <1>1, <1>2, <3>1 DEF StreamInv, ClosedInv
      <3>5. CASE d # c
        BY <2>3, <3>2, <3>3, <3>5
      <3>6. CASE d = c
        <4>1. ~(session(c)[2] = 1 /\ turn[c] = 2)
          BY <1>1, <3>3, <3>6 DEF StreamInv, ClearsInv, session, request
        <4> QED
          BY <1>4, <2>3, <3>4, <3>6, <4>1
      <3> QED
        BY <3>5, <3>6
    <2> QED
      BY <2>1, <2>2, <2>3
  <1> QED
    BY <1>5, <1>6 DEF Next, StreamStep, Announce, Deliver, Break, End, callVars, vars

-----------------------------------------------------------------------------

\* The maps, the waiters and the answers under way agree in every state.
THEOREM McpInvariance == Spec => []McpInv
  <1>1. McpInv /\ [Next]_vars => McpInv'
    <2> SUFFICES ASSUME McpInv, [Next]_vars PROVE McpInv'
      OBVIOUS
    <2>1. ClientTypes /\ WaiterInv /\ AnswerInv /\ StreamInv /\ PromiseInv
      BY DEF McpInv
    <2>2. ClientTypes' /\ WaiterInv' /\ AnswerInv'
      BY ClientTypesStep, WaiterStep, AnswerStep
    <2>3. StreamInv' /\ PromiseInv'
      BY <2>1, MapsStep, ClearsStep, ClosedStep, PromiseStep DEF StreamInv
    <2>4. HealthyInv' /\ HealthyServerAnswers' /\ LossNeedsRival'
      BY HealthyStep, LossStep
    <2> QED
      BY <2>2, <2>3, <2>4 DEF McpInv
  <1>2. Init /\ [][Next]_vars => []McpInv
    BY <1>1, ClientInit, PTL
  <1> QED
    BY <1>2, PTL DEF Spec

\* rpc never returns the answer to another request: not to one of a concurrent
\* call, not a late one to its own first turn, whichever stream it came over.
THEOREM AnswersMatchRequests == Spec => []OwnAnswer
  <1>1. McpInv => OwnAnswer
    BY DEF McpInv, AnswerInv, OwnAnswer
  <1> QED
    BY <1>1, McpInvariance, PTL

\* With a server that does nothing wrong no call fails or times out, however
\* many calls discover its bridge URL at once and overwrite each other's entries.
THEOREM HealthyServer == Spec => []HealthyServerAnswers
  <1>1. McpInv => HealthyServerAnswers
    BY DEF McpInv
  <1> QED
    BY <1>1, McpInvariance, PTL

\* With a server whose only fault is to forget sessions, an answer is lost only
\* over a stream of another call or when another call retries.
THEOREM LossNeedsAnotherCall == Spec => []LossNeedsRival
  <1>1. McpInv => LossNeedsRival
    BY DEF McpInv
  <1> QED
    BY <1>1, McpInvariance, PTL
=============================================================================
