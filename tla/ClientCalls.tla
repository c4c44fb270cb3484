---------------------------- MODULE ClientCalls -----------------------------
(***************************************************************************)
(* The blocking calls of UDPClient (source/server/asio/udp_client.cpp):    *)
(* Connect, Disconnect, Reconnect, Send, Receive, JoinMulticastGroup and   *)
(* LeaveMulticastGroup work on the socket from the caller's thread, while  *)
(* the io thread runs the handlers of DisconnectAsync and of the two group *)
(* calls with Async.  The callbacks are the empty ones of UDPClient.       *)
(*                                                                         *)
(* Every call of the socket and every access of _connected is a step.  An  *)
(* exception ends a call of the application, or the io thread.             *)
(***************************************************************************)
EXTENDS Integers, Sequences

CONSTANTS
  MayFail,      \* whether a lookup, bind() or set_option() may fail
  MaxConnects,  \* bound on the calls of Connect
  MaxQueue      \* bound on the handlers that wait when one is posted

ASSUME CallsAssumption == MayFail \in BOOLEAN /\ {MaxConnects, MaxQueue} \subseteq Nat

VARIABLES
  connected,  \* _connected
  socket,     \* "open" or "closed"
  member,     \* whether the socket has joined the group
  at,         \* at[a]: the step of the call or handler that a is inside
  again,      \* whether the application is inside Reconnect
  queue,      \* handlers that wait for the io thread
  alive,      \* whether the io thread is in io_service::run()
  wanted,     \* auxiliary: whether the calls made in this session add up to a membership
  lead,       \* auxiliary: onConnected minus onDisconnected
  connects,   \* auxiliary: calls of Connect so far
  mishaps     \* auxiliary: what has gone wrong so far

vars == <<connected, socket, member, at, again, queue, alive, wanted, lead, connects, mishaps>>

GroupCalls == {"join", "leave"}

Steps == {"idle", "resolve", "open", "bind", "connected", "close", "flags", "transfer",
          "join", "leave", "post_join", "post_leave", "post_disconnect"}

TypeOK ==
  /\ connected \in BOOLEAN /\ member \in BOOLEAN /\ wanted \in BOOLEAN
  /\ again \in BOOLEAN /\ alive \in BOOLEAN
  /\ socket \in {"open", "closed"}
  /\ at \in [{"app", "io"} -> Steps]
  /\ queue \in Seq(GroupCalls \cup {"disconnect"})
  /\ lead \in Int
  /\ connects \in Nat
  /\ mishaps \subseteq {"overlap", "bind", "option", "lookup", "overtaken"}

Init ==
  /\ connected = FALSE
  /\ socket = "closed"
  /\ member = FALSE
  /\ at = [a \in {"app", "io"} |-> "idle"]
  /\ again = FALSE
  /\ queue = <<>>
  /\ alive = TRUE
  /\ wanted = FALSE
  /\ lead = 0
  /\ connects = 0
  /\ mishaps = {}
-----------------------------------------------------------------------------
Goto(a, from, to) == at[a] = from /\ at' = [at EXCEPT ![a] = to]

Throws(a) == at' = [at EXCEPT ![a] = "idle"] /\ alive' = (alive /\ a # "io")

Waiting(k) == \E i \in 1..Len(queue) : queue[i] \in k

(***************************************************************************)
(* Connect(), with or without a lookup: open, bind, _connected.            *)
(***************************************************************************)
Connect ==
  /\ ~connected
  /\ connects < MaxConnects
  /\ Goto("app", "idle", "open") \/ Goto("app", "idle", "resolve")
  /\ connects' = connects + 1
  /\ UNCHANGED <<connected, socket, member, again, queue, alive, wanted, lead, mishaps>>

Resolve ==
  /\ \/ Goto("app", "resolve", "open") /\ UNCHANGED <<lead, mishaps>>
     \/ /\ MayFail
        /\ Goto("app", "resolve", "idle")
        /\ lead' = lead - 1
        /\ mishaps' = mishaps \cup {"lookup"}
  /\ UNCHANGED <<connected, socket, member, again, queue, alive, wanted, connects>>

Open ==
  /\ at["app"] = "open"
  /\ again' = FALSE
  /\ IF socket = "open"
     THEN Throws("app") /\ UNCHANGED socket
     ELSE Goto("app", "open", "bind") /\ socket' = "open" /\ UNCHANGED alive
  /\ UNCHANGED <<connected, member, queue, wanted, lead, connects, mishaps>>

Bind ==
  /\ at["app"] = "bind"
  /\ \/ socket = "closed" /\ Throws("app") /\ UNCHANGED mishaps
     \/ MayFail /\ Throws("app") /\ mishaps' = mishaps \cup {"bind"}
     \/ socket = "open" /\ Goto("app", "bind", "connected") /\ UNCHANGED <<alive, mishaps>>
  /\ UNCHANGED <<connected, socket, member, again, queue, wanted, lead, connects>>

Connected ==
  /\ Goto("app", "connected", "idle")
  /\ connected' = TRUE
  /\ wanted' = FALSE
  /\ lead' = lead + 1
  /\ UNCHANGED <<socket, member, again, queue, alive, connects, mishaps>>
-----------------------------------------------------------------------------
(***************************************************************************)
(* DisconnectInternal(): the test, close(), the flags, onDisconnected.     *)
(* Of two threads inside close() one may find the descriptor gone.         *)
(***************************************************************************)
Other(a) == IF a = "app" THEN "io" ELSE "app"

Begun(a) ==
  mishaps' = IF at[Other(a)] \in {"close", "flags"} THEN mishaps \cup {"overlap"} ELSE mishaps

Disconnect ==
  /\ connected
  /\ Goto("app", "idle", "close")
  /\ \/ again' = FALSE /\ UNCHANGED connects
     \/ connects < MaxConnects /\ again' = TRUE /\ connects' = connects + 1
  /\ Begun("app")
  /\ UNCHANGED <<connected, socket, member, queue, alive, wanted, lead>>

GroupPending ==
  Waiting(GroupCalls) \/ at["io"] \in GroupCalls \/ at["app"] \in {"post_join", "post_leave"}

Overtakes == mishaps' = IF GroupPending THEN mishaps \cup {"overtaken"} ELSE mishaps

Close_KeepsSocket(a) ==
  /\ Goto(a, "close", "flags")
  /\ member' = FALSE
  /\ UNCHANGED <<connected, socket, again, queue, alive, wanted, lead, connects, mishaps>>

Close(a) ==
  /\ at[a] = "close"
  /\ \/ Goto(a, "close", "flags") /\ UNCHANGED <<alive, again>>
     \/ /\ at[Other(a)] = "close"
        /\ Throws(a)
        /\ again' = (again /\ a # "app")
  /\ socket' = "closed"
  /\ member' = FALSE
  /\ Overtakes
  /\ UNCHANGED <<connected, queue, wanted, lead, connects>>

Flags_NoCallback(a) ==
  /\ Goto(a, "flags", IF a = "app" /\ again THEN "open" ELSE "idle")
  /\ connected' = FALSE
  /\ UNCHANGED <<socket, member, again, queue, alive, wanted, lead, connects, mishaps>>

Flags(a) ==
  /\ Goto(a, "flags", IF a = "app" /\ again THEN "open" ELSE "idle")
  /\ connected' = FALSE
  /\ lead' = lead - 1
  /\ Overtakes
  /\ UNCHANGED <<socket, member, again, queue, alive, wanted, connects>>

DisconnectHandler ==
  /\ alive /\ queue # <<>>
  /\ Head(queue) = "disconnect"
  /\ queue' = Tail(queue)
  /\ IF connected
     THEN Goto("io", "idle", "close") /\ Begun("io")
     ELSE at["io"] = "idle" /\ UNCHANGED <<at, mishaps>>
  /\ UNCHANGED <<connected, socket, member, again, alive, wanted, lead, connects>>
-----------------------------------------------------------------------------
(***************************************************************************)
(* JoinMulticastGroup and LeaveMulticastGroup: the test of _connected, and *)
(* set_option, which throws for a socket that is closed, joined already,   *)
(* or not a member.  The application calls them in turn.                   *)
(***************************************************************************)
InTurn(k) == (k = "join") # wanted

GroupCall(k) ==
  /\ connected
  /\ InTurn(k)
  /\ Goto("app", "idle", k)
  /\ Overtakes
  /\ UNCHANGED <<connected, socket, member, again, queue, alive, wanted, lead, connects>>

SetOption(a, k) ==
  /\ at[a] = k
  /\ \/ /\ socket = "open"
        /\ (k = "join") # member
        /\ Goto(a, k, "idle")
        /\ member' = (k = "join")
        /\ wanted' = IF a = "app" THEN k = "join" ELSE wanted
        /\ UNCHANGED <<alive, mishaps>>
     \/ /\ socket = "closed" \/ (k = "join") = member
        /\ Throws(a)
        /\ UNCHANGED <<member, wanted, mishaps>>
     \/ /\ MayFail
        /\ Throws(a)
        /\ mishaps' = mishaps \cup {"option"}
        /\ UNCHANGED <<member, wanted>>
  /\ UNCHANGED <<connected, socket, again, queue, lead, connects>>

GroupHandler_Joins ==
  /\ alive /\ queue # <<>>
  /\ Head(queue) \in GroupCalls
  /\ queue' = Tail(queue)
  /\ Goto("io", "idle", IF connected THEN "join" ELSE "idle")
  /\ UNCHANGED <<connected, socket, member, again, alive, wanted, lead, connects, mishaps>>

GroupHandler_Inverted ==
  /\ alive /\ queue # <<>>
  /\ Head(queue) \in GroupCalls
  /\ queue' = Tail(queue)
  /\ Goto("io", "idle", IF ~connected THEN Head(queue) ELSE "idle")
  /\ UNCHANGED <<connected, socket, member, again, alive, wanted, lead, connects, mishaps>>

GroupHandler ==
  /\ alive /\ queue # <<>>
  /\ Head(queue) \in GroupCalls
  /\ queue' = Tail(queue)
  /\ Goto("io", "idle", IF connected THEN Head(queue) ELSE "idle")
  /\ UNCHANGED <<connected, socket, member, again, alive, wanted, lead, connects, mishaps>>

(***************************************************************************)
(* The calls with Async test _connected and give the rest to the io        *)
(* thread; dispatch() from outside of it posts.                            *)
(***************************************************************************)
PostStep == [join |-> "post_join", leave |-> "post_leave", disconnect |-> "post_disconnect"]

AsyncCall(k) ==
  /\ connected
  /\ Len(queue) < MaxQueue
  /\ k \in GroupCalls => InTurn(k)
  /\ Goto("app", "idle", PostStep[k])
  /\ UNCHANGED <<connected, socket, member, again, queue, alive, wanted, lead, connects, mishaps>>

Post(k) ==
  /\ Goto("app", PostStep[k], "idle")
  /\ queue' = Append(queue, k)
  /\ wanted' = IF k \in GroupCalls THEN k = "join" ELSE wanted
  /\ UNCHANGED <<connected, socket, member, again, alive, lead, connects, mishaps>>
-----------------------------------------------------------------------------
(***************************************************************************)
(* Send and Receive: the test of _connected, and the system call, which    *)
(* may fail, and fails on a closed socket.  Then they disconnect.          *)
(***************************************************************************)
Transfer ==
  /\ connected
  /\ Goto("app", "idle", "transfer")
  /\ UNCHANGED <<connected, socket, member, again, queue, alive, wanted, lead, connects, mishaps>>

Transferred ==
  /\ \/ socket = "open" /\ Goto("app", "transfer", "idle") /\ UNCHANGED mishaps
     \/ Goto("app", "transfer", IF connected THEN "close" ELSE "idle")
        /\ IF connected THEN Begun("app") ELSE UNCHANGED mishaps
  /\ UNCHANGED <<connected, socket, member, again, queue, alive, wanted, lead, connects>>

AppStep ==
  \/ Connect \/ Resolve \/ Open \/ Bind \/ Connected \/ Disconnect
  \/ Transfer \/ Transferred
  \/ \E k \in GroupCalls : GroupCall(k)
  \/ \E k \in GroupCalls \cup {"disconnect"} : AsyncCall(k) \/ Post(k)

Next ==
  \/ AppStep
  \/ DisconnectHandler \/ GroupHandler
  \/ \E a \in {"app", "io"} : Close(a) \/ Flags(a) \/ \E k \in GroupCalls : SetOption(a, k)

Spec == Init /\ [][Next]_vars
-----------------------------------------------------------------------------
Quiet == at["app"] = "idle" /\ at["io"] = "idle"

(***************************************************************************)
(* Between calls, a client is connected exactly when its socket is open.   *)
(* Otherwise no call of it can succeed again: Connect() throws because the *)
(* socket is open, and Disconnect() returns because it is not connected.   *)
(* Only a bind() that fails, and a Disconnect() that overlaps with the     *)
(* disconnect handler, can do this.                                        *)
(***************************************************************************)
SocketMatchesFlag ==
  Quiet /\ (connected # (socket = "open")) => mishaps \cap {"overlap", "bind"} # {}

(***************************************************************************)
(* Between calls, onConnected and onDisconnected have been called in turn, *)
(* but for lookups that failed and for disconnects that overlapped.        *)
(***************************************************************************)
CallbacksAlternate ==
  Quiet /\ lead # (IF connected THEN 1 ELSE 0) => mishaps \cap {"overlap", "lookup"} # {}

(***************************************************************************)
(* A group call does not end the io thread, unless the system refuses it,  *)
(* or a disconnect or a direct group call overtakes it.                    *)
(***************************************************************************)
IoThreadLives == ~alive => mishaps \cap {"overlap", "option", "overtaken"} # {}

(***************************************************************************)
(* When nothing is in progress, the socket of a connected client is a      *)
(* member of the group exactly when the calls of this session say so.      *)
(***************************************************************************)
MembershipFollowsCalls ==
  Quiet /\ connected /\ ~Waiting(GroupCalls) /\ (member # wanted)
    => mishaps \cap {"overlap", "option", "overtaken"} # {}
-----------------------------------------------------------------------------
(***************************************************************************)
(* The strengthening of the first two: what holds inside the calls as long *)
(* as no two disconnects have overlapped.                                  *)
(***************************************************************************)
Disconnecting(a) == at[a] \in {"close", "flags"}

Connecting == at["app"] \in {"resolve", "open", "bind", "connected"}

SocketInside ==
  IF connected
  THEN socket = "open" <=> at["app"] # "flags" /\ at["io"] # "flags"
  ELSE socket = "open" <=> at["app"] \in {"bind", "connected"}

SessionInv ==
  "overlap" \notin mishaps =>
    /\ ~(Disconnecting("app") /\ Disconnecting("io"))
    /\ Disconnecting("app") \/ Disconnecting("io") => connected
    /\ Connecting => ~connected
    /\ "bind" \notin mishaps => SocketInside
    /\ "lookup" \notin mishaps => lead = IF connected THEN 1 ELSE 0
-----------------------------------------------------------------------------
(***************************************************************************)
(* The strengthening of the last two.  As long as nothing has gone wrong,  *)
(* the handlers that wait take the socket from the membership it has to    *)
(* the one that is wanted, each group call undoing the one before it:      *)
(* after[i] is the call in effect when the first i of them have run.       *)
(***************************************************************************)
Clean == mishaps \cap {"overlap", "option", "overtaken"} = {}

InEffect(joined) == IF joined THEN "join" ELSE "leave"

Entered == IF at["io"] \in GroupCalls THEN at["io"] ELSE InEffect(member)

Course(after) ==
  /\ after[0] = Entered
  /\ \A i \in 1..Len(queue) :
       IF queue[i] \in GroupCalls
       THEN after[i] = queue[i] /\ after[i - 1] # queue[i]
       ELSE after[i] = after[i - 1]
  /\ \A i \in 0..Len(queue) :
       (\A j \in (i + 1)..Len(queue) : queue[j] \notin GroupCalls) => after[i] = InEffect(wanted)

HasCourse == \E after \in [0..Len(queue) -> GroupCalls] : Course(after)

Untroubled ==
  /\ alive
  /\ "bind" \in mishaps => ~connected /\ socket = "open" /\ at["app"] \in {"idle", "resolve", "open"}
  /\ ~connected => ~member /\ ~GroupPending
  /\ ~connected /\ at["app"] \in GroupCalls => socket = "closed"
  /\ at["app"] \in GroupCalls \cup {"flags"} => ~GroupPending
  /\ at["app"] \in {"join", "post_join"} => ~wanted
  /\ at["app"] \in {"leave", "post_leave"} => wanted
  /\ at["io"] \in GroupCalls => at["io"] # InEffect(member)
  /\ socket = "closed" => ~member

MembershipInv == Clean => Untroubled /\ (connected /\ socket = "open" => HasCourse)
=============================================================================
