----------------------------- MODULE McpClient -----------------------------
(***************************************************************************)
(* mcp.Client: concurrent JSON-RPC calls to one tool server.  A call looks *)
(* up the bridge URL of the server or opens an event stream to discover    *)
(* it, registers a waiter under a fresh ID, posts, and reads the answer    *)
(* from the body or from the stream; on 400 or 401 it forgets the bridge,  *)
(* closes the stream that is registered, and tries once more.  The maps    *)
(* are shared by all calls and each access to one is a step.  The agent    *)
(* loop passes a context that never ends, and every HTTP exchange ends.    *)
(* The server is external: it keeps a session per stream.  Maps are keyed  *)
(* by server URL, so that one server stands for any number.                *)
(***************************************************************************)
EXTENDS Naturals, FiniteSets

CONSTANTS
  Calls,   \* concurrent calls of rpc
  Faulty,  \* what the server may do wrong: a set of sets of Faults
  None

\* nosse: it has no event stream;  expires: it forgets sessions;  drops: it
\* breaks streams;  refuses: it answers 400 or 401 to anybody;  fails: any
\* other error;  slow: the timers of the client may pass before it answers.
Faults == {"nosse", "expires", "drops", "refuses", "fails", "slow"}

\* One request is one turn of rpcWithRetry, and opens one stream at most, which
\* is named after it.
Requests == Calls \X {1, 2}

ASSUME McpClientAssumption ==
  /\ IsFiniteSet(Calls)
  /\ Faulty \subseteq SUBSET Faults
  /\ None \notin Requests

VARIABLES
  faults,      \* what this server may do wrong
  bridge,      \* bridges: the stream whose bridge URL is cached
  connection,  \* connections: the stream that is registered
  nextID,
  waiters,     \* waiters: the request that waits under an ID
  channel,     \* the channel of a request: the request whose answer it holds
  pc, turn,    \* where a call is, and which turn it takes
  target,      \* the session a request is posted to, None for the base URL
  result,      \* "none", "error", "timeout" or "answer"
  answered,    \* the request whose answer a call returned
  stream,      \* "none", "open" or "closed": the reader of each stream
  announced,   \* the streams that carried their bridge URL
  ended,       \* external: the sessions that the server forgot
  due          \* external: answers under way on a stream

clientVars == <<bridge, connection, nextID, waiters, channel>>
callVars   == <<pc, turn, target, result, answered>>
serverVars == <<stream, announced, ended, due>>
vars == <<faults, clientVars, callVars, serverVars>>

CallPC == {"resolve", "open", "discover", "register", "post", "accepted", "wait",
           "forget", "close", "done"}
Answer == [id : 1..(2 * Cardinality(Calls)), to : Requests, over : Requests]

TypeOK ==
  /\ faults \in Faulty
  /\ {bridge, connection} \subseteq Requests \cup {None}
  /\ nextID \in 0..(2 * Cardinality(Calls))
  /\ waiters \in UNION {[I -> Requests] : I \in SUBSET (1..nextID)}
  /\ channel \in [Requests -> Requests \cup {None}]
  /\ pc \in [Calls -> CallPC] /\ turn \in [Calls -> 1..2]
  /\ target \in [Requests -> Requests \cup {None}]
  /\ result \in [Calls -> {"none", "error", "timeout", "answer"}]
  /\ answered \in [Calls -> Requests \cup {None}]
  /\ stream \in [Requests -> {"none", "open", "closed"}]
  /\ announced \in SUBSET Requests /\ ended \in SUBSET Requests
  /\ due \in SUBSET Answer

Init ==
  /\ faults \in Faulty
  /\ bridge = None /\ connection = None /\ nextID = 0
  /\ waiters = <<>> /\ channel = [r \in Requests |-> None]
  /\ pc = [c \in Calls |-> "resolve"] /\ turn = [c \in Calls |-> 1]
  /\ target = [r \in Requests |-> None]
  /\ result = [c \in Calls |-> "none"] /\ answered = [c \in Calls |-> None]
  /\ stream = [r \in Requests |-> "none"]
  /\ announced = {} /\ ended = {} /\ due = {}

request(c)  == <<c, turn[c]>>
Goto(c, l)  == pc' = [pc EXCEPT ![c] = l]
Target(c,t) == target' = [target EXCEPT ![request(c)] = t]

\* A call returns: the deferred deletes remove its waiters.
Return(c, r, a) ==
  /\ Goto(c, "done")
  /\ result' = [result EXCEPT ![c] = r]
  /\ answered' = [answered EXCEPT ![c] = a]
  /\ waiters' = [i \in {j \in DOMAIN waiters : waiters[j][1] # c} |-> waiters[i]]

-----------------------------------------------------------------------------
(* resolveBridge                                                           *)

Resolve(c) ==
  /\ pc[c] = "resolve"
  /\ IF bridge # None
       THEN Target(c, bridge) /\ Goto(c, "register")
       ELSE Goto(c, "open") /\ UNCHANGED target
  /\ UNCHANGED <<faults, clientVars, turn, result, answered, serverVars>>

\* Mutant: the stream that is replaced is closed.
OpenStreamCloses(c) ==
  /\ pc[c] = "open"
  /\ "nosse" \notin faults
  /\ stream' = [r \in Requests |-> IF r = request(c) THEN "open"
                                   ELSE IF r = connection THEN "closed" ELSE stream[r]]
  /\ connection' = request(c)
  /\ Goto(c, "discover")
  /\ UNCHANGED <<faults, bridge, nextID, waiters, channel, turn, target, result,
                 answered, announced, ended, due>>

\* GET {url}/sse: the body is stored, replacing the one of another call, and
\* read by a goroutine of its own.
OpenStream(c) ==
  /\ pc[c] = "open"
  /\ "nosse" \notin faults
  /\ stream' = [stream EXCEPT ![request(c)] = "open"]
  /\ connection' = request(c)
  /\ Goto(c, "discover")
  /\ UNCHANGED <<faults, bridge, nextID, waiters, channel, turn, target, result,
                 answered, announced, ended, due>>

\* No stream: the base URL it is.
NoStream(c) ==
  /\ pc[c] = "open"
  /\ faults \cap {"nosse", "fails"} # {}
  /\ Target(c, None) /\ Goto(c, "register")
  /\ UNCHANGED <<faults, clientVars, turn, result, answered, serverVars>>

\* bridgeChan has the URL; it is cached whatever is cached by now.
Discovered(c) ==
  /\ pc[c] = "discover" /\ request(c) \in announced
  /\ bridge' = request(c)
  /\ Target(c, request(c)) /\ Goto(c, "register")
  /\ UNCHANGED <<faults, connection, nextID, waiters, channel, turn, result, answered,
                 serverVars>>

\* Ten seconds: the base URL, and the stream stays.
DiscoverTimeout(c) ==
  /\ pc[c] = "discover"
  /\ "slow" \in faults \/ (request(c) \notin announced /\ stream[request(c)] = "closed")
  /\ Target(c, None) /\ Goto(c, "register")
  /\ UNCHANGED <<faults, clientVars, turn, result, answered, serverVars>>

-----------------------------------------------------------------------------
(* rpcWithRetry                                                            *)

\* nextID.Add and waiters.Store.
Register(c) ==
  /\ pc[c] = "register"
  /\ nextID' = nextID + 1
  /\ waiters' = [i \in DOMAIN waiters \cup {nextID'} |->
                   IF i = nextID' THEN request(c) ELSE waiters[i]]
  /\ Goto(c, "post")
  /\ UNCHANGED <<faults, bridge, connection, channel, turn, target, result, answered, serverVars>>

session(c) == target[request(c)]
ID(c)      == CHOOSE i \in DOMAIN waiters : waiters[i] = request(c)

\* The answer is in the body.  A session that lost its stream may have an
\* answer still.
PostAnswered(c) ==
  /\ pc[c] = "post"
  /\ "refuses" \notin faults /\ session(c) \notin ended
  /\ Return(c, "answer", request(c))
  /\ UNCHANGED <<faults, bridge, connection, nextID, channel, turn, target, serverVars>>

\* 202, or an empty body: the answer follows on the stream of the session,
\* before or after the client has read the response.
PostAccepted(c) ==
  /\ pc[c] = "post"
  /\ "refuses" \notin faults /\ session(c) # None /\ session(c) \notin ended
  /\ due' = due \cup {[id |-> ID(c), to |-> request(c), over |-> session(c)]}
  /\ Goto(c, "accepted")
  /\ UNCHANGED <<faults, clientVars, turn, target, result, answered, stream, announced, ended>>

\* 400 or 401: the first turn clears the cache, the second one fails.
PostRefused(c) ==
  /\ pc[c] = "post"
  /\ "refuses" \in faults \/ session(c) \in ended
       \/ (session(c) # None /\ stream[session(c)] = "closed")
  /\ IF turn[c] = 1
       THEN Goto(c, "forget") /\ UNCHANGED <<result, answered, waiters>>
       ELSE Return(c, "error", None)
  /\ UNCHANGED <<faults, bridge, connection, nextID, channel, turn, target, serverVars>>

\* Any other status, a failed request, or an answer that is an error.
PostFails(c) ==
  /\ pc[c] = "post" /\ "fails" \in faults
  /\ Return(c, "error", None)
  /\ UNCHANGED <<faults, bridge, connection, nextID, channel, turn, target, serverVars>>

\* bridges.Delete, whichever bridge is cached by now.
ForgetBridge(c) ==
  /\ pc[c] = "forget"
  /\ bridge' = None
  /\ Goto(c, "close")
  /\ UNCHANGED <<faults, connection, nextID, waiters, channel, turn, target, result,
                 answered, serverVars>>

\* connections.LoadAndDelete and Close, whichever stream is registered by now;
\* then the second turn.
CloseConnection(c) ==
  /\ pc[c] = "close"
  /\ stream' = [r \in Requests |-> IF r = connection THEN "closed" ELSE stream[r]]
  /\ connection' = None
  /\ turn' = [turn EXCEPT ![c] = 2]
  /\ Goto(c, "resolve")
  /\ UNCHANGED <<faults, bridge, nextID, waiters, channel, target, result, answered,
                 announced, ended, due>>

\* The client has read the status and waits on its channel.
Accepted(c) ==
  /\ pc[c] = "accepted"
  /\ Goto(c, "wait")
  /\ UNCHANGED <<faults, clientVars, turn, target, result, answered, serverVars>>

Receive(c) ==
  /\ pc[c] = "wait" /\ channel[request(c)] # None
  /\ Return(c, "answer", channel[request(c)])
  /\ UNCHANGED <<faults, bridge, connection, nextID, channel, turn, target, serverVars>>

\* An answer to the request may still arrive.
OnItsWay(c) ==
  \/ channel[request(c)] # None
  \/ \E d \in due : d.to = request(c) /\ stream[d.over] = "open"

\* Mutant: there is no limit.
WaitOnly(c) == Receive(c)

\* Thirty seconds.
WaitTimeout(c) ==
  /\ pc[c] = "wait"
  /\ "slow" \in faults \/ ~OnItsWay(c)
  /\ Return(c, "timeout", None)
  /\ UNCHANGED <<faults, bridge, connection, nextID, channel, turn, target, serverVars>>

-----------------------------------------------------------------------------
(* The streams: what the server sends, and the goroutine that reads it.    *)

Announce(r) ==
  /\ stream[r] = "open" /\ r \notin announced
  /\ announced' = announced \cup {r}
  /\ UNCHANGED <<faults, clientVars, callVars, stream, ended, due>>

\* Mutant: an answer goes to the call that waits longest.
DeliverInOrder(d) ==
  LET oldest == CHOOSE i \in DOMAIN waiters : \A j \in DOMAIN waiters : i <= j IN
  /\ stream[d.over] = "open" /\ DOMAIN waiters # {}
  /\ due' = due \ {d}
  /\ channel' = [channel EXCEPT ![waiters[oldest]] = d.to]
  /\ UNCHANGED <<faults, bridge, connection, nextID, waiters, callVars, stream, announced,
                 ended>>

\* Mutant: the channel has no buffer.
DeliverUnbuffered(d) ==
  /\ stream[d.over] = "open"
  /\ due' = due \ {d}
  /\ channel' = IF d.id \in DOMAIN waiters /\ pc[waiters[d.id][1]] = "wait"
                  THEN [channel EXCEPT ![waiters[d.id]] = d.to] ELSE channel
  /\ UNCHANGED <<faults, bridge, connection, nextID, waiters, callVars, stream, announced,
                 ended>>

\* The reader hands an answer to the waiter of its ID, if there is one and its
\* channel is empty.
Deliver(d) ==
  /\ stream[d.over] = "open"
  /\ due' = due \ {d}
  /\ channel' = IF d.id \in DOMAIN waiters /\ channel[waiters[d.id]] = None
                  THEN [channel EXCEPT ![waiters[d.id]] = d.to] ELSE channel
  /\ UNCHANGED <<faults, bridge, connection, nextID, waiters, callVars, stream, announced,
                 ended>>

\* The stream breaks: its reader ends, both maps keep their entries.
Break(r) ==
  /\ "drops" \in faults /\ stream[r] = "open"
  /\ stream' = [stream EXCEPT ![r] = "closed"]
  /\ UNCHANGED <<faults, clientVars, callVars, announced, ended, due>>

\* The server forgets a session.
End(r) ==
  /\ "expires" \in faults /\ r \in announced \ ended
  /\ ended' = ended \cup {r}
  /\ UNCHANGED <<faults, clientVars, callVars, stream, announced, due>>

-----------------------------------------------------------------------------

CallStep(c) ==
  \/ Resolve(c) \/ OpenStream(c) \/ NoStream(c) \/ Discovered(c) \/ DiscoverTimeout(c)
  \/ Register(c) \/ PostAnswered(c) \/ PostAccepted(c) \/ PostRefused(c) \/ PostFails(c)
  \/ ForgetBridge(c) \/ CloseConnection(c) \/ Accepted(c) \/ Receive(c) \/ WaitTimeout(c)

StreamStep == (\E r \in Requests : Announce(r)) \/ (\E d \in due : Deliver(d))

Next ==
  \/ \E c \in Calls : CallStep(c)
  \/ StreamStep
  \/ \E r \in Requests : Break(r) \/ End(r)

\* Goroutines run, timers fire, and what is under way on an open stream arrives.
Spec ==
  Init /\ [][Next]_vars /\ (\A c \in Calls : WF_vars(CallStep(c))) /\ WF_vars(StreamStep)

-----------------------------------------------------------------------------

\* A call returns the answer to its own request, whatever arrives late or on
\* the stream of another call.
OwnAnswer ==
  \A c \in Calls : result[c] = "answer" => answered[c] = request(c)

\* With a server that does nothing wrong every call is answered, although
\* discoveries overlap and replace each other in both maps.
HealthyServerAnswers ==
  faults \subseteq {"nosse"} => \A c \in Calls : result[c] \notin {"error", "timeout"}

\* With a server that forgets sessions an answer is lost only between two calls:
\* it was to arrive on a stream of another call, or another call retried and
\* closed the stream.
LossNeedsRival ==
  faults \subseteq {"expires"} =>
    \A c \in Calls : result[c] = "timeout" =>
      \E d \in Calls \ {c} : turn[d] = 2 \/ session(c) \in {<<d, 1>>, <<d, 2>>}

\* Every call returns: nobody waits for ever, and nobody retries for ever.
CallsReturn == \A c \in Calls : <>(pc[c] = "done")
=============================================================================
