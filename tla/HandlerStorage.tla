--------------------------- MODULE HandlerStorage ---------------------------
(***************************************************************************)
(* HandlerStorage (include/server/asio/memory.h): the block of memory that *)
(* the send operations of one server share, guarded by the plain flag      *)
(* _in_use, and the calls that allocate from it and free it.               *)
(*                                                                         *)
(* On separate io_services the application's thread starts operations and  *)
(* the io thread frees them before it runs their handlers.  On a pool the  *)
(* strand's handlers start operations; the thread that pops a completion   *)
(* frees its memory and calls strand.dispatch(), which allocates from the  *)
(* same block for the way through the strand, and whoever runs the strand  *)
(* frees that.  One thread at a time calls SendAsync.                      *)
(***************************************************************************)
EXTENDS Integers, FiniteSets

CONSTANTS
  Ops,       \* identities of operations
  PoolSize,  \* number of io threads of a pool
  Fits,      \* whether an operation may be smaller than _storage, or larger
  MaxStops   \* bound on the stops

ASSUME StorageAssumption ==
  /\ IsFiniteSet(Ops)
  /\ PoolSize \in Nat
  /\ Fits \subseteq BOOLEAN
  /\ MaxStops \in Nat

VARIABLES
  pool,     \* Service::_strand_required
  inUse,    \* _in_use
  started,  \* UDPServer::_started
  sending,  \* UDPServer::_sending
  at,       \* at[o]: where operation o is
  way,      \* way[o]: its memory is for the socket ("op") or for the strand ("strand")
  place,    \* place[o]: the memory it holds
  stops     \* auxiliary: stops so far

opVars == <<at, way, place>>

storageVars == <<pool, inUse, started, sending, opVars, stops>>

StorageTypeOK ==
  /\ pool \in BOOLEAN /\ inUse \in BOOLEAN /\ started \in BOOLEAN /\ sending \in BOOLEAN
  /\ at \in [Ops -> {"off", "flag", "allocate", "claim", "held", "free", "handler"}]
  /\ way \in [Ops -> {"op", "strand"}]
  /\ place \in [Ops -> {"none", "storage", "heap"}]
  /\ stops \in Nat

StorageInit ==
  /\ pool \in BOOLEAN
  /\ inUse = FALSE
  /\ started = FALSE
  /\ sending = FALSE
  /\ at = [o \in Ops |-> "off"]
  /\ way = [o \in Ops |-> "op"]
  /\ place = [o \in Ops |-> "none"]
  /\ stops = 0
-----------------------------------------------------------------------------
(***************************************************************************)
(* Who is inside: SendAsync, a completion on its way to the strand, or a   *)
(* completion that the io thread or the strand runs.                       *)
(***************************************************************************)
InSend(o) == at[o] = "flag" \/ (way[o] = "op" /\ at[o] \in {"allocate", "claim"})

InCompletion(o) == way[o] = "op" /\ at[o] = "free"

InDispatch(o) == way[o] = "strand" /\ at[o] \in {"allocate", "claim"}

InHandler(o) == at[o] = "handler" \/ (way[o] = "strand" /\ at[o] = "free")

Serial(o) == InHandler(o) \/ (IF pool THEN InSend(o) ELSE InCompletion(o))

Idle == \A o \in Ops : ~Serial(o)

Busy == {o \in Ops : Serial(o) \/ (pool /\ (InCompletion(o) \/ InDispatch(o)))}

Put(f, o, x) == [f EXCEPT ![o] = x]
-----------------------------------------------------------------------------
(***************************************************************************)
(* SendAsync: the tests, _sending, and the operation that make_alloc_      *)
(* handler ties to the storage.                                            *)
(***************************************************************************)
SendAsync_NoGuard(o) ==
  /\ at[o] = "off"
  /\ IF pool THEN Idle ELSE \A p \in Ops : ~InSend(p)
  /\ started
  /\ at' = Put(at, o, "flag")
  /\ way' = Put(way, o, "op")
  /\ UNCHANGED <<pool, inUse, started, sending, place, stops>>

SendAsync(o) ==
  /\ at[o] = "off"
  /\ IF pool THEN Idle ELSE \A p \in Ops : ~InSend(p)
  /\ ~sending /\ started
  /\ at' = Put(at, o, "flag")
  /\ way' = Put(way, o, "op")
  /\ UNCHANGED <<pool, inUse, started, sending, place, stops>>

SendFlag(o) ==
  /\ at[o] = "flag"
  /\ sending' = TRUE
  /\ at' = Put(at, o, "allocate")
  /\ UNCHANGED <<pool, inUse, started, way, place, stops>>

(***************************************************************************)
(* allocate() reads _in_use, and then sets it or goes to the heap.         *)
(***************************************************************************)
allocate(o) ==
  /\ at[o] = "allocate"
  /\ \E fits \in Fits :
       IF ~inUse /\ fits
       THEN at' = Put(at, o, "claim") /\ place' = Put(place, o, "storage")
       ELSE at' = Put(at, o, "held") /\ place' = Put(place, o, "heap")
  /\ UNCHANGED <<pool, inUse, started, sending, way, stops>>

Claim(o) ==
  /\ at[o] = "claim"
  /\ inUse' = TRUE
  /\ at' = Put(at, o, "held")
  /\ UNCHANGED <<pool, started, sending, way, place, stops>>

(***************************************************************************)
(* An io thread pops the finished or aborted operation; later, on a pool,  *)
(* the strand gets to it.                                                  *)
(***************************************************************************)
Pop(o) ==
  /\ at[o] = "held"
  /\ IF way[o] = "op" /\ pool THEN Cardinality(Busy) < PoolSize ELSE Idle
  /\ at' = Put(at, o, "free")
  /\ UNCHANGED <<pool, inUse, started, sending, way, place, stops>>

deallocate_Keeps(o) ==
  /\ at[o] = "free"
  /\ place' = Put(place, o, "none")
  /\ IF pool /\ way[o] = "op"
     THEN at' = Put(at, o, "allocate") /\ way' = Put(way, o, "strand")
     ELSE at' = Put(at, o, "handler") /\ UNCHANGED way
  /\ UNCHANGED <<pool, inUse, started, sending, stops>>

deallocate(o) ==
  /\ at[o] = "free"
  /\ inUse' = (inUse /\ place[o] # "storage")
  /\ place' = Put(place, o, "none")
  /\ IF pool /\ way[o] = "op"
     THEN at' = Put(at, o, "allocate") /\ way' = Put(way, o, "strand")
     ELSE at' = Put(at, o, "handler") /\ UNCHANGED way
  /\ UNCHANGED <<pool, started, sending, stops>>

SendHandler(o) ==
  /\ at[o] = "handler"
  /\ sending' = FALSE
  /\ at' = Put(at, o, "off")
  /\ UNCHANGED <<pool, inUse, started, way, place, stops>>

(***************************************************************************)
(* The start handler.  On one io thread it runs behind the completions of  *)
(* the previous session.                                                   *)
(***************************************************************************)
StartHandler ==
  /\ ~started
  /\ IF pool THEN Idle ELSE \A o \in Ops : at[o] = "off"
  /\ started' = TRUE
  /\ UNCHANGED <<pool, inUse, sending, opVars, stops>>

(***************************************************************************)
(* The stop handler clears _sending while the completions of the aborted   *)
(* operations are still to come.                                           *)
(***************************************************************************)
StopHandler ==
  /\ started
  /\ stops < MaxStops
  /\ Idle
  /\ started' = FALSE
  /\ sending' = FALSE
  /\ stops' = stops + 1
  /\ UNCHANGED <<pool, inUse, opVars>>

OpStep(o) ==
  \/ SendAsync(o) \/ SendFlag(o) \/ allocate(o) \/ Claim(o)
  \/ Pop(o) \/ deallocate(o) \/ SendHandler(o)

StorageNext == StartHandler \/ StopHandler \/ \E o \in Ops : OpStep(o)

StorageSpec == StorageInit /\ [][StorageNext]_storageVars
-----------------------------------------------------------------------------
(***************************************************************************)
(* The operations that use the block: they hold it, or have found it free  *)
(* and are about to mark it.                                               *)
(***************************************************************************)
Holders == {o \in Ops : place[o] = "storage"}

(***************************************************************************)
(* Two operations never share the block on separate io_services, although  *)
(* _in_use is not atomic.  On a pool the strand's dispatch() of a          *)
(* completion that an earlier stop has aborted competes for it with the    *)
(* SendAsync of the new session; each stop adds at most one holder.        *)
(***************************************************************************)
StorageShared == Cardinality(Holders) <= IF pool THEN 1 + stops ELSE 1

(***************************************************************************)
(* The block is not lost: it is marked only while an operation uses it.    *)
(***************************************************************************)
StorageReturned == inUse => Holders # {}
-----------------------------------------------------------------------------
(***************************************************************************)
(* The strengthening: memory is held only between allocate() and           *)
(* deallocate(), and on separate io_services one operation at a time is    *)
(* under way, because _sending or a stop keeps the next one out.           *)
(***************************************************************************)
HeldInv ==
  /\ inUse => Holders # {}
  /\ \A o \in Ops : at[o] = "claim" => place[o] = "storage"
  /\ \A o \in Ops : place[o] = "storage" => at[o] \in {"claim", "held", "free"}

AloneInv ==
  ~pool =>
    /\ \A o, p \in Ops : at[o] # "off" /\ at[p] # "off" => o = p
    /\ \A o \in Ops : at[o] \notin {"off", "flag"} => sending \/ ~started
    /\ \A o \in Ops : at[o] # "off" => way[o] = "op"

(***************************************************************************)
(* On separate io_services the block has one holder.                       *)
(***************************************************************************)
StorageExclusive == ~pool => \A o, p \in Holders : o = p

(***************************************************************************)
(* Behind the bound on a pool: an operation that is under way is the one   *)
(* that _sending stands for, or a stop has cleared _sending under it.      *)
(***************************************************************************)
Active == {o \in Ops : at[o] # "off"}

ActiveInv ==
  /\ Cardinality(Active) <= 1 + stops
  /\ ~sending /\ (\A o \in Ops : at[o] # "flag") => Cardinality(Active) <= stops
=============================================================================
