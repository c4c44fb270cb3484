-------------------------- MODULE UtilitiesProofs ---------------------------
(***************************************************************************)
(* Proofs about HandlerStorage, for any number of operations, threads and  *)
(* stops and for any sizes; about ExceptionsHandler, for any threads, any  *)
(* list of signals and any number of arrivals; about ThreadControl, for    *)
(* any CPUs, masks and times; and about UuidText, for any number of bytes  *)
(* and texts of any length.                                                *)
(***************************************************************************)
EXTENDS HandlerStorage, ExceptionsHandler, ThreadControl, UuidText,
        FiniteSetTheorems, TLAPS

(***************************************************************************)
(* Every action keeps the types.                                           *)
(***************************************************************************)
LEMMA StorageTypeStep == StorageTypeOK /\ StorageNext => StorageTypeOK'
<1> SUFFICES ASSUME StorageTypeOK, StorageNext PROVE StorageTypeOK'
  OBVIOUS
<1> USE DEF StorageTypeOK
<1>1. CASE StartHandler \/ StopHandler
  <2>1. pool' \in BOOLEAN /\ inUse' \in BOOLEAN /\ started' \in BOOLEAN /\ sending' \in BOOLEAN
    BY ZenonT(30), <1>1 DEF StartHandler, StopHandler
  <2>2. UNCHANGED opVars /\ stops' \in Nat
    BY <1>1 DEF StartHandler, StopHandler
  <2> QED
    BY <2>1, <2>2 DEF opVars
<1>2. ASSUME NEW o \in Ops, SendAsync(o) \/ SendFlag(o) PROVE StorageTypeOK'
  BY ZenonT(30), <1>2 DEF SendAsync, SendFlag, Put
<1>3. ASSUME NEW o \in Ops, allocate(o) \/ Claim(o) PROVE StorageTypeOK'
  BY ZenonT(30), <1>3 DEF allocate, Claim, Put
<1>4. ASSUME NEW o \in Ops, Pop(o) \/ SendHandler(o) PROVE StorageTypeOK'
  BY ZenonT(30), <1>4 DEF Pop, SendHandler, Put
<1>5. ASSUME NEW o \in Ops, deallocate(o) PROVE StorageTypeOK'
  <2>1. inUse' \in BOOLEAN
    BY ZenonT(30), <1>5 DEF deallocate
  <2> QED
    BY <1>5, <2>1 DEF deallocate, Put
<1> QED
  BY <1>1, <1>2, <1>3, <1>4, <1>5 DEF StorageNext, OpStep

(***************************************************************************)
(* Every action keeps HeldInv.  The block is marked by one that holds it,  *)
(* and the mark goes with the first of the holders that returns it.        *)
(***************************************************************************)
LEMMA HeldStep == StorageTypeOK /\ HeldInv /\ StorageNext => HeldInv'
<1> SUFFICES ASSUME StorageTypeOK, HeldInv, StorageNext PROVE HeldInv'
  OBVIOUS
<1> USE DEF StorageTypeOK, HeldInv, Holders
<1>1. CASE StartHandler \/ StopHandler
  BY <1>1 DEF StartHandler, StopHandler, opVars
<1>2. ASSUME NEW o \in Ops, SendAsync(o) \/ SendFlag(o) PROVE HeldInv'
  BY <1>2 DEF SendAsync, SendFlag, Put
<1>3. ASSUME NEW o \in Ops, allocate(o) PROVE HeldInv'
  BY <1>3 DEF allocate, Put
<1>4. ASSUME NEW o \in Ops, Claim(o) PROVE HeldInv'
  BY <1>4 DEF Claim, Put
<1>5. ASSUME NEW o \in Ops, Pop(o) \/ SendHandler(o) PROVE HeldInv'
  BY <1>5 DEF Pop, SendHandler, Put
<1>6. ASSUME NEW o \in Ops, deallocate(o) PROVE HeldInv'
  BY ZenonT(30), <1>6 DEF deallocate, Put
<1> QED
  BY <1>1, <1>2, <1>3, <1>4, <1>5, <1>6 DEF StorageNext, OpStep

(***************************************************************************)
(* Every action keeps AloneInv.                                            *)
(***************************************************************************)
LEMMA AloneStep == StorageTypeOK /\ AloneInv /\ StorageNext => AloneInv'
<1> SUFFICES ASSUME StorageTypeOK, AloneInv, StorageNext, ~pool' PROVE AloneInv'
  BY DEF AloneInv
<1> USE DEF StorageTypeOK, AloneInv
<1>0. ~pool
  BY DEF StorageNext, OpStep, StartHandler, StopHandler, SendAsync, SendFlag, allocate, Claim, Pop, deallocate, SendHandler
<1>1. CASE StartHandler \/ StopHandler
  BY <1>0, <1>1 DEF StartHandler, StopHandler, opVars
<1>2. ASSUME NEW o \in Ops, SendAsync(o) PROVE AloneInv'
  <2>1. \A p \in Ops : at[p] = "off"
    BY <1>0, <1>2 DEF SendAsync, InSend
  <2> QED
    BY <1>0, <1>2, <2>1 DEF SendAsync, Put
<1>3. ASSUME NEW o \in Ops, SendFlag(o) \/ SendHandler(o) PROVE AloneInv'
  BY <1>0, <1>3 DEF SendFlag, SendHandler, Put
<1>4. ASSUME NEW o \in Ops, allocate(o) \/ Claim(o) \/ Pop(o) PROVE AloneInv'
  BY <1>0, <1>4 DEF allocate, Claim, Pop, Put
<1>5. ASSUME NEW o \in Ops, deallocate(o) PROVE AloneInv'
  BY <1>0, <1>5 DEF deallocate, Put
<1> QED
  BY <1>1, <1>2, <1>3, <1>4, <1>5 DEF StorageNext, OpStep

(***************************************************************************)
(* The type of the state of the storage and of the sends that use it.      *)
(***************************************************************************)
THEOREM StorageTypeCorrect == StorageSpec => []StorageTypeOK
<1>1. StorageInit => StorageTypeOK
  <2> SUFFICES ASSUME StorageInit PROVE StorageTypeOK
    OBVIOUS
  <2>1. pool \in BOOLEAN /\ inUse \in BOOLEAN /\ started \in BOOLEAN /\ sending \in BOOLEAN
    BY Zenon DEF StorageInit
  <2>2. stops \in Nat
    BY DEF StorageInit
  <2>3. /\ at \in [Ops -> {"off", "flag", "allocate", "claim", "held", "free", "handler"}]
        /\ way \in [Ops -> {"op", "strand"}]
        /\ place \in [Ops -> {"none", "storage", "heap"}]
    BY DEF StorageInit
  <2> QED
    BY <2>1, <2>2, <2>3 DEF StorageTypeOK
<1>2. StorageTypeOK /\ UNCHANGED storageVars => StorageTypeOK'
  BY DEF storageVars, opVars, StorageTypeOK
<1> QED
  BY <1>1, <1>2, StorageTypeStep, PTL DEF StorageSpec

(***************************************************************************)
(* HandlerStorage never loses its block: _in_use is set only while an      *)
(* operation uses it, in both thread modes.                                *)
(***************************************************************************)
THEOREM BlockReturned == StorageSpec => []StorageReturned
<1>1. StorageInit => HeldInv
  BY DEF StorageInit, HeldInv
<1>2. HeldInv /\ UNCHANGED storageVars => HeldInv'
  BY DEF storageVars, opVars, HeldInv, Holders
<1>3. HeldInv => StorageReturned
  BY DEF HeldInv, StorageReturned
<1> QED
  BY <1>1, <1>2, <1>3, HeldStep, StorageTypeCorrect, PTL DEF StorageSpec

(***************************************************************************)
(* On separate io_services two send operations never share the block of    *)
(* HandlerStorage, although _in_use is read and set without a lock.        *)
(***************************************************************************)
THEOREM BlockExclusive == StorageSpec => []StorageExclusive
<1>1. StorageInit => HeldInv /\ AloneInv
  BY DEF StorageInit, HeldInv, AloneInv, Holders
<1>2. HeldInv /\ AloneInv /\ UNCHANGED storageVars => (HeldInv /\ AloneInv)'
  BY DEF storageVars, opVars, HeldInv, AloneInv, Holders
<1>3. HeldInv /\ AloneInv => StorageExclusive
  BY DEF HeldInv, AloneInv, StorageExclusive, Holders
<1> QED
  BY <1>1, <1>2, <1>3, HeldStep, AloneStep, StorageTypeCorrect, PTL DEF StorageSpec

(***************************************************************************)
(* Every action keeps ActiveInv: an operation begins when _sending is      *)
(* clear, its handler ends it with _sending, and a stop adds one.          *)
(***************************************************************************)
LEMMA ActiveStep == StorageTypeOK /\ ActiveInv /\ StorageNext => ActiveInv'
<1> SUFFICES ASSUME StorageTypeOK, ActiveInv, StorageNext PROVE ActiveInv'
  OBVIOUS
<1>a. IsFiniteSet(Active) /\ Cardinality(Active) \in Nat /\ stops \in Nat
  BY StorageAssumption, FS_Subset, FS_CardinalityType DEF Active, StorageTypeOK
<1>1. CASE StartHandler \/ StopHandler
  <2>1. Active' = Active /\ (\A o \in Ops : at'[o] # "flag") = (\A o \in Ops : at[o] # "flag")
    BY <1>1 DEF StartHandler, StopHandler, opVars, Active
  <2>2. CASE StartHandler
    BY <2>1, <2>2 DEF StartHandler, ActiveInv
  <2>3. CASE StopHandler
    BY <1>a, <2>1, <2>3 DEF StopHandler, ActiveInv
  <2> QED
    BY <1>1, <2>2, <2>3
<1>2. ASSUME NEW o \in Ops, SendAsync(o) PROVE ActiveInv'
  <2>1. Active' = Active \cup {o} /\ o \notin Active
    BY <1>2 DEF SendAsync, Put, Active, StorageTypeOK
  <2>2. Cardinality(Active') = Cardinality(Active) + 1
    BY <1>a, <2>1, FS_AddElement
  <2>3. Cardinality(Active) <= stops
    BY <1>2 DEF SendAsync, Idle, Serial, InSend, ActiveInv
  <2>4. at'[o] = "flag" /\ stops' = stops
    BY <1>2 DEF SendAsync, Put, StorageTypeOK
  <2> QED
    BY <1>a, <2>2, <2>3, <2>4 DEF ActiveInv
<1>3. ASSUME NEW o \in Ops, SendFlag(o) PROVE ActiveInv'
  <2>1. Active' = Active /\ sending' = TRUE /\ stops' = stops
    BY <1>3 DEF SendFlag, Put, Active, StorageTypeOK
  <2> QED
    BY <2>1 DEF ActiveInv
<1>4. ASSUME NEW o \in Ops, allocate(o) \/ Claim(o) \/ Pop(o) \/ deallocate(o) PROVE ActiveInv'
  <2>1. /\ UNCHANGED <<sending, stops>>
        /\ \E x \in {"claim", "held", "free", "allocate", "handler"} : at' = [at EXCEPT ![o] = x]
        /\ at[o] \notin {"off", "flag"}
    BY <1>4 DEF allocate, Claim, Pop, deallocate, Put
  <2>2. Active' = Active /\ \A p \in Ops : at'[p] = "flag" <=> at[p] = "flag"
    BY <2>1 DEF Active, StorageTypeOK
  <2> QED
    BY <2>1, <2>2 DEF ActiveInv
<1>5. ASSUME NEW o \in Ops, SendHandler(o) PROVE ActiveInv'
  <2>1. Active' = Active \ {o} /\ o \in Active /\ stops' = stops
    BY <1>5 DEF SendHandler, Put, Active, StorageTypeOK
  <2>2. Cardinality(Active') = Cardinality(Active) - 1
    BY SMTT(30), <1>a, <2>1, FS_RemoveElement
  <2> QED
    BY <1>a, <2>1, <2>2 DEF ActiveInv
<1> QED
  BY <1>1, <1>2, <1>3, <1>4, <1>5 DEF StorageNext, OpStep

(***************************************************************************)
(* The sends that use the block of HandlerStorage are at most one on       *)
(* separate io_services, and on a pool at most one more than the stops.    *)
(***************************************************************************)
THEOREM BlockSharedByStops == StorageSpec => []StorageShared
<1>1. StorageInit => HeldInv /\ AloneInv /\ ActiveInv
  <2> SUFFICES ASSUME StorageInit PROVE HeldInv /\ AloneInv /\ ActiveInv
    OBVIOUS
  <2>1. HeldInv /\ AloneInv
    BY DEF StorageInit, HeldInv, AloneInv, Holders
  <2>2. Active = {} /\ stops = 0
    BY DEF StorageInit, Active
  <2> QED
    BY <2>1, <2>2, FS_EmptySet DEF ActiveInv
<1>2. HeldInv /\ AloneInv /\ ActiveInv /\ UNCHANGED storageVars => (HeldInv /\ AloneInv /\ ActiveInv)'
  BY DEF storageVars, opVars, HeldInv, AloneInv, ActiveInv, Active, Holders
<1>3. StorageTypeOK /\ HeldInv /\ AloneInv /\ ActiveInv => StorageShared
  <2> SUFFICES ASSUME StorageTypeOK, HeldInv, AloneInv, ActiveInv PROVE StorageShared
    OBVIOUS
  <2>1. IsFiniteSet(Active) /\ Cardinality(Active) \in Nat /\ stops \in Nat
    BY StorageAssumption, FS_Subset, FS_CardinalityType DEF Active, StorageTypeOK
  <2>2. Holders \subseteq Active
    BY DEF HeldInv, Holders, Active
  <2>3. Cardinality(Holders) <= Cardinality(Active) /\ Cardinality(Holders) \in Nat
    BY <2>1, <2>2, FS_Subset, FS_CardinalityType
  <2>4. CASE pool
    BY <2>1, <2>3, <2>4 DEF ActiveInv, StorageShared
  <2>5. CASE ~pool
    <3>1. \A o, p \in Active : o = p
      BY <2>5 DEF AloneInv, Active
    <3>2. Active = {} \/ \E o : Active = {o}
      BY <3>1
    <3>3. Cardinality(Active) <= 1
      BY <2>1, <3>2, FS_EmptySet, FS_Singleton
    <3> QED
      BY <2>1, <2>3, <2>5, <3>3 DEF StorageShared
  <2> QED
    BY <2>4, <2>5
<1> QED
  BY <1>1, <1>2, <1>3, HeldStep, AloneStep, ActiveStep, StorageTypeCorrect, PTL DEF StorageSpec
-----------------------------------------------------------------------------
Frame == [sig : AllSignals, at : {"report", "reset", "raise", "return"}]

(***************************************************************************)
(* What the three changes of a thread's handler calls do: going on, being  *)
(* interrupted, and returning.                                             *)
(***************************************************************************)
LEMMA Advanced ==
  ASSUME frames \in [Threads -> Seq(Frame)], NEW t \in Threads, frames[t] # <<>>,
         NEW a \in {"report", "reset", "raise", "return"}, Advance(t, a)
  PROVE  /\ frames' \in [Threads -> Seq(Frame)]
         /\ \A u \in Threads \ {t} : frames'[u] = frames[u]
         /\ Len(frames'[t]) = Len(frames[t])
         /\ frames'[t][1].at = a /\ frames'[t][1].sig = frames[t][1].sig
         /\ \A i \in 2..Len(frames[t]) : frames'[t][i] = frames[t][i]
<1> DEFINE f == frames[t]
           r == [f[1] EXCEPT !.at = a]
           g == [f EXCEPT ![1] = r]
<1>1. f \in Seq(Frame) /\ Len(f) \in Nat /\ Len(f) > 0 /\ f[1] \in Frame
  OBVIOUS
<1>2. r \in Frame /\ r.at = a /\ r.sig = f[1].sig
  BY <1>1 DEF Frame
<1>3. g \in Seq(Frame) /\ Len(g) = Len(f) /\ g[1] = r /\ \A i \in 2..Len(f) : g[i] = f[i]
  BY <1>1, <1>2
<1>4. frames' = [frames EXCEPT ![t] = g]
  BY DEF Advance
<1> QED
  BY <1>2, <1>3, <1>4

LEMMA Interrupts ==
  ASSUME NEW fs \in Seq(Frame), NEW s \in AllSignals
  PROVE  LET g == <<[sig |-> s, at |-> "report"]>> \o fs
         IN  /\ g \in Seq(Frame)
             /\ Len(g) = Len(fs) + 1
             /\ g[1].at = "report"
             /\ \A i \in 2..Len(g) : g[i] = fs[i - 1]
<1>1. [sig |-> s, at |-> "report"] \in Frame
  BY DEF Frame
<1> QED
  BY <1>1

LEMMA Returns ==
  ASSUME NEW f \in Seq(Frame), f # <<>>
  PROVE  /\ Tail(f) \in Seq(Frame)
         /\ Head(f) \in Frame /\ Head(f) = f[1]
         /\ Len(Tail(f)) = Len(f) - 1
         /\ \A i \in 1..Len(Tail(f)) : Tail(f)[i] = f[i + 1] /\ i + 1 \in 1..Len(f)
OBVIOUS

(***************************************************************************)
(* The part of the types that the argument needs.                          *)
(***************************************************************************)
Typed ==
  /\ setup \in Int /\ setup >= -1 /\ setup <= Len(Signals)
  /\ caught \subseteq AllSignals /\ reported \subseteq AllSignals
  /\ frames \in [Threads -> Seq(Frame)]

FramesReported ==
  \A t \in Threads : \A i \in 1..Len(frames[t]) : frames[t][i].at # "report" => frames[t][i].sig \in reported

(***************************************************************************)
(* A delivery keeps the types of the handler calls and adds one that has   *)
(* still to report, or ends the process by a signal that is not caught.    *)
(***************************************************************************)
LEMMA Delivered ==
  ASSUME Typed, FramesReported, NEW t \in Threads, NEW s \in AllSignals, NEW fs \in Seq(Frame),
         \A i \in 1..Len(fs) : fs[i].at # "report" => fs[i].sig \in reported,
         Delivers(t, s, fs), UNCHANGED reported
  PROVE  /\ frames' \in [Threads -> Seq(Frame)]
         /\ FramesReported'
         /\ died' = died \/ (died' = s /\ s \notin caught)
<1> DEFINE g == <<[sig |-> s, at |-> "report"]>> \o fs
<1>1. CASE s \in caught
  <2>1. frames' = [frames EXCEPT ![t] = g] /\ died' = died
    BY <1>1 DEF Delivers
  <2>2. g \in Seq(Frame) /\ \A i \in 1..Len(g) : g[i].at # "report" => g[i].sig \in reported
    <3> HIDE DEF g
    <3>1. /\ g \in Seq(Frame) /\ Len(g) = Len(fs) + 1
          /\ g[1].at = "report" /\ \A i \in 2..Len(g) : g[i] = fs[i - 1]
      BY Interrupts DEF g
    <3> QED
      BY <3>1
  <2> HIDE DEF g
  <2>3. frames' \in [Threads -> Seq(Frame)] /\ frames'[t] = g /\ \A u \in Threads \ {t} : frames'[u] = frames[u]
    BY <2>1, <2>2 DEF Typed
  <2> QED
    BY <2>1, <2>2, <2>3 DEF FramesReported
<1>2. CASE s \notin caught
  BY <1>2 DEF Delivers, Typed, FramesReported
<1> QED
  BY <1>1, <1>2

(***************************************************************************)
(* The steps of SetupProcess.                                              *)
(***************************************************************************)
LEMMA SetupStep ==
  ASSUME Typed, ReportedInv, SetupProcess \/ SetupSignal \/ SetupDone
  PROVE  Typed' /\ ReportedInv'
<1>1. \A i \in 1..Len(Signals) : Signals[i] \in AllSignals
  BY SignalsAssumption DEF AllSignals
<1>2. \A s \in AllSignals : \E i \in 1..Len(Signals) : s = Signals[i]
  BY SignalsAssumption DEF AllSignals
<1>3. Len(Signals) \in Nat
  BY SignalsAssumption
<1>4. UNCHANGED <<frames, reported, died>> /\ died = "no"
  BY DEF SetupProcess, SetupSignal, SetupDone
<1>5. \/ setup' = 0 /\ UNCHANGED <<initialized, caught>>
      \/ /\ setup >= 0 /\ setup < Len(Signals) /\ setup' = setup + 1
         /\ caught' = caught \cup {Signals[setup + 1]} /\ initialized' = initialized
      \/ setup' = -1 /\ UNCHANGED <<initialized, caught>>
      \/ setup = Len(Signals) /\ setup' = -1 /\ caught' = caught
  BY DEF SetupProcess, SetupSignal, SetupDone
<1>6. Typed'
  <2>1. setup' \in Int /\ setup' >= -1 /\ setup' <= Len(Signals)
    BY <1>5, <1>3 DEF Typed
  <2>2. caught' \subseteq AllSignals
    BY <1>5, <1>1, <1>3 DEF Typed
  <2> QED
    BY <1>4, <2>1, <2>2 DEF Typed
<1>7. Undone' \subseteq Undone
  BY <1>4, <1>5 DEF Undone
<1>8. FramesReported'
  BY <1>4 DEF ReportedInv, FramesReported
<1>9. (\A i \in 1..setup : Signals[i] \notin Undone)'
  <2> SUFFICES ASSUME NEW i \in 1..setup' PROVE Signals[i] \notin Undone'
    OBVIOUS
  <2>1. CASE i \in 1..setup
    BY <1>7, <2>1 DEF ReportedInv
  <2>2. CASE i \notin 1..setup
    <3>1. i = setup + 1 /\ caught' = caught \cup {Signals[setup + 1]}
      BY <1>5, <1>3, <2>2 DEF Typed
    <3> QED
      BY <3>1 DEF Undone
  <2> QED
    BY <2>1, <2>2
<1>10. (initialized => Undone = {})'
  <2>1. CASE setup = Len(Signals)
    <3>1. Undone = {}
      BY <1>2, <2>1 DEF ReportedInv, Undone
    <3> QED
      BY <1>7, <3>1
  <2>2. CASE setup # Len(Signals)
    BY ZenonT(30), <1>5, <1>7, <2>2 DEF ReportedInv
  <2> QED
    BY <2>1, <2>2
<1>11. DeathReported'
  BY <1>4, SignalsAssumption DEF DeathReported, AllSignals
<1> QED
  BY <1>6, <1>8, <1>9, <1>10, <1>11 DEF ReportedInv, FramesReported

(***************************************************************************)
(* A step that delivers a signal.                                          *)
(***************************************************************************)
LEMMA DeliveryKeeps ==
  ASSUME Typed, ReportedInv, died = "no", UNCHANGED <<setupVars, caught, reported>>,
         frames' \in [Threads -> Seq(Frame)], FramesReported',
         NEW s \in AllSignals, died' = died \/ (died' = s /\ s \notin caught)
  PROVE  Typed' /\ ReportedInv'
<1>1. Typed'
  BY DEF Typed, setupVars
<1>2. (\A i \in 1..setup : Signals[i] \notin Undone)' /\ (initialized => Undone = {})'
  BY DEF ReportedInv, Undone, setupVars
<1>3. DeathReported'
  BY SignalsAssumption DEF ReportedInv, DeathReported, Undone, setupVars, AllSignals
<1> QED
  BY <1>1, <1>2, <1>3 DEF ReportedInv, FramesReported

LEMMA ArrivalStep ==
  ASSUME Typed, ReportedInv, NEW t \in Threads, NEW s \in AllSignals, SignalArrives(t, s)
  PROVE  Typed' /\ ReportedInv'
<1>1. died = "no" /\ Delivers(t, s, frames[t]) /\ UNCHANGED <<setupVars, caught, reported>>
  BY DEF SignalArrives
<1>2. FramesReported /\ frames[t] \in Seq(Frame)
  BY DEF Typed, ReportedInv, FramesReported
<1>3. /\ frames' \in [Threads -> Seq(Frame)] /\ FramesReported'
      /\ died' = died \/ (died' = s /\ s \notin caught)
  BY <1>1, <1>2, Delivered DEF FramesReported
<1> QED
  BY <1>1, <1>3, DeliveryKeeps

LEMMA ReturnStep ==
  ASSUME Typed, ReportedInv, NEW t \in Threads, Return(t)
  PROVE  Typed' /\ ReportedInv'
<1> DEFINE f == frames[t]
           s == Head(f).sig
<1>1. FramesReported /\ f \in Seq(Frame) /\ f # <<>> /\ died = "no"
  BY DEF Typed, ReportedInv, FramesReported, Return, At
<1>2. /\ Tail(f) \in Seq(Frame) /\ s \in AllSignals
      /\ \A i \in 1..Len(Tail(f)) : Tail(f)[i] = f[i + 1] /\ i + 1 \in 1..Len(f)
  BY ZenonT(30), <1>1, Returns DEF Frame
<1>3. \A i \in 1..Len(Tail(f)) : Tail(f)[i].at # "report" => Tail(f)[i].sig \in reported
  BY <1>1, <1>2 DEF FramesReported
<1>4. UNCHANGED <<setupVars, caught, reported>>
  BY DEF Return
<1>5. CASE s \in raised[t]
  <2>1. Delivers(t, s, Tail(f))
    BY <1>5 DEF Return
  <2>2. /\ frames' \in [Threads -> Seq(Frame)] /\ FramesReported'
        /\ died' = died \/ (died' = s /\ s \notin caught)
    BY ZenonT(30), <1>1, <1>2, <1>3, <1>4, <2>1, Delivered
  <2> QED
    BY SMTT(30), <1>1, <1>2, <1>4, <2>2, DeliveryKeeps
<1>6. CASE s \notin raised[t]
  <2>1. frames' = [frames EXCEPT ![t] = Tail(f)] /\ died' = died
    BY <1>6 DEF Return
  <2>2. frames' \in [Threads -> Seq(Frame)] /\ frames'[t] = Tail(f) /\ \A u \in Threads \ {t} : frames'[u] = frames[u]
    BY <1>2, <2>1 DEF Typed
  <2>3. FramesReported'
    BY ZenonT(30), <1>1, <1>3, <1>4, <2>2 DEF FramesReported
  <2> QED
    BY SMTT(30), <1>1, <1>2, <1>4, <2>1, <2>2, <2>3, DeliveryKeeps
<1> QED
  BY <1>5, <1>6

(***************************************************************************)
(* The other steps of SignalHandler.                                       *)
(***************************************************************************)
LEMMA HandlerAdvances ==
  ASSUME Typed, ReportedInv, NEW t \in Threads, Report(t) \/ Reset(t) \/ Raise(t)
  PROVE  Typed' /\ ReportedInv'
<1> DEFINE s == Head(frames[t]).sig
<1>1. frames[t] \in Seq(Frame) /\ frames[t] # <<>> /\ died = "no" /\ UNCHANGED setupVars
  BY DEF Typed, Report, Reset, Raise, At
<1>2. s \in AllSignals /\ s = frames[t][1].sig /\ 1 \in 1..Len(frames[t]) /\ Head(frames[t]).at = frames[t][1].at
  <2>1. Head(frames[t]) \in Frame /\ Head(frames[t]) = frames[t][1]
    BY <1>1, Returns
  <2>2. 1 \in 1..Len(frames[t])
    BY SMTT(30), <1>1
  <2> QED
    BY <2>1, <2>2 DEF Frame
<1> HIDE DEF s
<1>3. reported \subseteq reported' /\ reported' \subseteq AllSignals
  BY <1>2 DEF Report, Reset, Raise, Typed, s
<1>4. caught' \subseteq AllSignals /\ caught \cup reported \subseteq caught' \cup reported'
  <2>1. CASE Report(t) \/ Raise(t)
    BY SMTT(30), <1>3, <2>1 DEF Report, Raise, Typed
  <2>2. CASE Reset(t)
    <3>1. s \in reported
      BY <1>1, <1>2, <2>2 DEF Reset, At, ReportedInv
    <3>2. caught' \in {caught, caught \ {s}} /\ reported' = reported
      BY <2>2 DEF Reset, s
    <3> QED
      BY <3>1, <3>2 DEF Typed
  <2> QED
    BY SMTT(30), <2>1, <2>2
<1>5. frames' \in [Threads -> Seq(Frame)] /\ FramesReported'
  <2>1. CASE UNCHANGED <<frames, reported>>
    BY <2>1 DEF Typed, ReportedInv, FramesReported
  <2>2. ASSUME NEW a \in {"reset", "raise", "return"}, Advance(t, a), s \in reported'
        PROVE  frames' \in [Threads -> Seq(Frame)] /\ FramesReported'
    <3>1. /\ frames' \in [Threads -> Seq(Frame)]
          /\ \A u \in Threads \ {t} : frames'[u] = frames[u]
          /\ Len(frames'[t]) = Len(frames[t])
          /\ frames'[t][1].sig = s
          /\ \A i \in 2..Len(frames[t]) : frames'[t][i] = frames[t][i]
      BY ZenonT(30), <1>1, <1>2, <2>2, Advanced DEF Typed
    <3>2. FramesReported
      BY DEF ReportedInv, FramesReported
    <3>3. ASSUME NEW u \in Threads, NEW i \in 1..Len(frames'[u]), frames'[u][i].at # "report"
          PROVE  frames'[u][i].sig \in reported'
      <4>1. CASE u # t
        BY <1>3, <3>1, <3>2, <3>3, <4>1 DEF FramesReported
      <4>2. CASE u = t /\ i = 1
        BY <2>2, <3>1, <4>2
      <4>3. CASE u = t /\ i # 1
        <5>1. i \in 2..Len(frames[t]) /\ i \in 1..Len(frames[t])
          BY <1>1, <3>1, <4>3
        <5> QED
          BY <1>3, <3>1, <3>2, <3>3, <4>3, <5>1 DEF FramesReported
      <4> QED
        BY <4>1, <4>2, <4>3
    <3> QED
      BY <3>1, <3>3 DEF FramesReported
  <2>3. CASE Report(t)
    BY <2>2, <2>3 DEF Report, s
  <2>4. CASE Reset(t)
    <3>1. s \in reported /\ reported' = reported
      BY SMTT(30), <1>1, <1>2, <2>4 DEF Reset, At, ReportedInv
    <3> QED
      BY SMTT(30), <2>1, <2>2, <2>4, <3>1 DEF Reset
  <2>5. CASE Raise(t)
    <3>1. s \in reported /\ reported' = reported
      BY <1>1, <1>2, <2>5 DEF Raise, At, ReportedInv
    <3>2. Advance(t, "return")
      BY <2>5 DEF Raise
    <3> QED
      BY <2>2, <3>1, <3>2
  <2> QED
    BY SMTT(30), <2>3, <2>4, <2>5
<1>6. Typed'
  BY <1>1, <1>3, <1>4, <1>5 DEF Typed, setupVars
<1>7. (\A i \in 1..setup : Signals[i] \notin Undone)' /\ (initialized => Undone = {})'
  BY <1>1, <1>4 DEF ReportedInv, Undone, setupVars
<1>8. DeathReported'
  <2>1. died' \in {"no", "SIGKILL"}
    BY <1>1 DEF Report, Reset, Raise
  <2> QED
    BY <2>1, SignalsAssumption DEF DeathReported, AllSignals
<1> QED
  BY <1>5, <1>6, <1>7, <1>8 DEF ReportedInv, FramesReported

(***************************************************************************)
(* Once SetupProcess has returned, no signal of its list ends the process  *)
(* before SignalHandler has reported it, whatever arrives on which thread. *)
(***************************************************************************)
THEOREM DeathsReported == Spec => []DeathReported
<1>1. Init => Typed /\ ReportedInv
  <2> SUFFICES ASSUME Init PROVE Typed /\ ReportedInv
    OBVIOUS
  <2>1. Typed
    BY SignalsAssumption DEF Init, Typed
  <2>2. ReportedInv
    BY SignalsAssumption DEF Init, ReportedInv, DeathReported, AllSignals
  <2> QED
    BY <2>1, <2>2
<1>2. Typed /\ ReportedInv /\ [Next]_vars => (Typed /\ ReportedInv)'
  <2> SUFFICES ASSUME Typed, ReportedInv, [Next]_vars PROVE Typed' /\ ReportedInv'
    OBVIOUS
  <2>1. CASE UNCHANGED vars
    BY <2>1 DEF vars, setupVars, Typed, ReportedInv, DeathReported, Undone
  <2>2. CASE SetupProcess \/ SetupSignal \/ SetupDone
    BY <2>2, SetupStep
  <2>3. ASSUME NEW t \in Threads, HandlerStep(t) PROVE Typed' /\ ReportedInv'
    BY <2>3, HandlerAdvances, ReturnStep DEF HandlerStep
  <2>4. ASSUME NEW t \in Threads, NEW s \in AllSignals, SignalArrives(t, s) PROVE Typed' /\ ReportedInv'
    BY <2>4, ArrivalStep
  <2> QED
    BY <2>1, <2>2, <2>3, <2>4 DEF Next
<1>3. ReportedInv => DeathReported
  BY DEF ReportedInv
<1> QED
  BY <1>1, <1>2, <1>3, PTL DEF Spec
-----------------------------------------------------------------------------
(***************************************************************************)
(* The two tables of Thread agree: GetPriority makes of a sched_priority   *)
(* the priority that SetPriority makes it from.  The first k of the limits *)
(* are those that it reaches.                                              *)
(***************************************************************************)
LEMMA LevelBetween ==
  ASSUME NEW k \in 0..6, NEW p \in Int,
         \A i \in 1..6 : p >= Limits[i] <=> i <= k
  PROVE  Level("RR", p) = Levels[k + 1]
<1>1. {i \in 1..6 : p >= Limits[i]} = 1..k
  OBVIOUS
<1>2. Cardinality(1..k) = k
  <2>1. 1 \in Int /\ k \in Int
    OBVIOUS
  <2>2. Cardinality(1..k) = IF 1 > k THEN 0 ELSE k - 1 + 1
    BY ZenonT(30), <2>1, FS_Interval
  <2> QED
    BY <2>2
<1>3. Level("RR", p) = Levels[1 + Cardinality(1..k)]
  BY Zenon, <1>1 DEF Level
<1>4. 1 + k = k + 1
  OBVIOUS
<1> QED
  BY Zenon, <1>2, <1>3, <1>4

LEMMA TablesAgree ==
  /\ \A p \in DOMAIN SchedPriority : Level("RR", SchedPriority[p]) = p
  /\ Level("RR", 0) = "IDLE"
<1> DEFINE Reaches(k, p) == \A i \in 1..6 : p >= Limits[i] <=> i <= k
<1>1. \A i \in 1..6 : i = 1 \/ i = 2 \/ i = 3 \/ i = 4 \/ i = 5 \/ i = 6
  OBVIOUS
<1>2. Limits[1] = 15 /\ Limits[2] = 30 /\ Limits[3] = 50 /\ Limits[4] = 70 /\ Limits[5] = 85 /\ Limits[6] = 99
  BY DEF Limits
<1>3. Reaches(0, 0) /\ Reaches(0, 1) /\ Reaches(1, 15) /\ Reaches(2, 30)
  BY <1>1, <1>2
<1>4. Reaches(3, 50) /\ Reaches(4, 70) /\ Reaches(5, 85) /\ Reaches(6, 99)
  BY <1>1, <1>2
<1> HIDE DEF Reaches
<1>5. ASSUME NEW k \in 0..6, NEW p \in Int, Reaches(k, p) PROVE Level("RR", p) = Levels[k + 1]
  BY <1>5, LevelBetween DEF Reaches
<1>6. Levels[0 + 1] = "IDLE" /\ Levels[1 + 1] = "LOWEST" /\ Levels[2 + 1] = "LOW" /\ Levels[3 + 1] = "NORMAL"
      /\ Levels[4 + 1] = "HIGH" /\ Levels[5 + 1] = "HIGHEST" /\ Levels[6 + 1] = "REALTIME"
  BY DEF Levels
<1>7. /\ Level("RR", 0) = "IDLE" /\ Level("RR", 1) = "IDLE" /\ Level("RR", 15) = "LOWEST"
      /\ Level("RR", 30) = "LOW" /\ Level("RR", 50) = "NORMAL" /\ Level("RR", 70) = "HIGH"
      /\ Level("RR", 85) = "HIGHEST" /\ Level("RR", 99) = "REALTIME"
  BY <1>3, <1>4, <1>5, <1>6
<1> QED
  BY <1>7 DEF SchedPriority

(***************************************************************************)
(* The time that nanosleep() is given is the time it is meant to be.       *)
(***************************************************************************)
LEMMA SplitSums ==
  ASSUME NEW n \in Nat
  PROVE  /\ n \div Second \in Nat /\ n % Second \in 0..(Second - 1)
         /\ (n \div Second) * Second + (n % Second) = n
BY ThreadAssumption

(***************************************************************************)
(* The attributes, through the calls that set them.                        *)
(***************************************************************************)
LEMMA AttributesStep == AttributesInv /\ ThreadNext => AttributesInv'
<1> SUFFICES ASSUME AttributesInv, ThreadNext PROVE AttributesInv'
  OBVIOUS
<1>1. ASSUME NEW p \in Priorities, SetPriority(p) \/ SetPriorityOf(p) PROVE AttributesInv'
  BY <1>1, ThreadAssumption DEF SetPriority, SetPriorityOf, Sets, AttributesInv, SchedPriority
<1>2. CASE UNCHANGED <<policy, prio, given, mask, asked>>
  BY <1>2 DEF AttributesInv
<1>3. ASSUME NEW affinity \in SUBSET (0..Bits - 1), SetAffinity(affinity) PROVE AttributesInv'
  BY <1>3 DEF SetAffinity, attrVars, AttributesInv
<1> QED
  BY <1>1, <1>2, <1>3 DEF ThreadNext, GetPriority, GetPolicy, SleepFor, Interrupted, Wakes, attrVars

(***************************************************************************)
(* Thread reads back what it sets: GetPriority the last priority, and      *)
(* GetAffinity the CPUs of the last affinity that exist.                   *)
(***************************************************************************)
THEOREM ReadsBack == ThreadSpec => []AttributesReadBack
<1>1. ThreadInit => AttributesInv
  BY DEF ThreadInit, AttributesInv
<1>2. AttributesInv /\ UNCHANGED threadVars => AttributesInv'
  BY DEF threadVars, attrVars, AttributesInv
<1>3. AttributesInv => AttributesReadBack
  BY TablesAgree DEF AttributesInv, AttributesReadBack, GetAffinity
<1> QED
  BY <1>1, <1>2, <1>3, AttributesStep, PTL DEF ThreadSpec

(***************************************************************************)
(* GetPriority() against the calls of other threads between its two system *)
(* calls.                                                                  *)
(***************************************************************************)
LEMMA GettingStep ==
  ASSUME AttributesInv, GettingInv, PriorityWasHeld, ThreadNext
  PROVE  GettingInv' /\ PriorityWasHeld'
<1>1. ASSUME NEW p \in Priorities, SetPriority(p) \/ SetPriorityOf(p) PROVE GettingInv' /\ PriorityWasHeld'
  <2>1. policy' = "RR" /\ held \subseteq held' /\ UNCHANGED <<doing, read, got, plain>>
    BY <1>1 DEF SetPriority, SetPriorityOf, Sets, getVars
  <2>2. CASE plain
    BY <2>1, <2>2, TablesAgree DEF GettingInv, PriorityWasHeld
  <2>3. CASE ~plain
    BY <2>1, <2>3 DEF GettingInv, PriorityWasHeld
  <2> QED
    BY <2>2, <2>3
<1>2. CASE GetPriority
  BY ZenonT(30), <1>2 DEF GetPriority, GettingInv, PriorityWasHeld, AttributesInv
<1>3. CASE GetPolicy
  BY <1>3 DEF GetPolicy, attrVars, GettingInv, PriorityWasHeld
<1>4. CASE UNCHANGED <<policy, held, read, got, plain>> /\ ((doing = "get") = (doing' = "get"))
  BY <1>4 DEF GettingInv, PriorityWasHeld
<1>5. ASSUME NEW affinity \in SUBSET (0..Bits - 1), SetAffinity(affinity) PROVE GettingInv' /\ PriorityWasHeld'
  BY <1>4, <1>5 DEF SetAffinity, attrVars, getVars
<1>6. ASSUME NEW n \in 1..MaxSleep, SleepFor(n) \/ Interrupted(n - 1) PROVE GettingInv' /\ PriorityWasHeld'
  BY <1>4, <1>6 DEF SleepFor, Interrupted, attrVars, getVars
<1>7. CASE Wakes
  BY <1>4, <1>7 DEF Wakes, attrVars, getVars
<1> QED
  BY <1>1, <1>2, <1>3, <1>5, <1>6, <1>7 DEF ThreadNext

(***************************************************************************)
(* GetPriority() returns a priority the thread had during the call, or     *)
(* IDLE to a thread that had no real-time priority when it began.          *)
(***************************************************************************)
THEOREM PrioritiesHeld == ThreadSpec => []PriorityWasHeld
<1>1. ThreadInit => AttributesInv /\ GettingInv /\ PriorityWasHeld
  BY DEF ThreadInit, AttributesInv, GettingInv, PriorityWasHeld
<1>2. AttributesInv /\ GettingInv /\ PriorityWasHeld /\ UNCHANGED threadVars
        => (AttributesInv /\ GettingInv /\ PriorityWasHeld)'
  BY DEF threadVars, attrVars, getVars, AttributesInv, GettingInv, PriorityWasHeld
<1> QED
  BY <1>1, <1>2, AttributesStep, GettingStep, PTL DEF ThreadSpec

(***************************************************************************)
(* The time that is due, through the interruptions of nanosleep().         *)
(***************************************************************************)
LEMMA SleepingStep ==
  ASSUME SleepingInv, ThreadNext
  PROVE  SleepingInv'
<1>1. CASE UNCHANGED <<req, due>> /\ ((doing = "sleep") = (doing' = "sleep"))
  BY <1>1 DEF SleepingInv, Left
<1>2. ASSUME NEW p \in Priorities, SetPriority(p) \/ SetPriorityOf(p) PROVE SleepingInv'
  BY <1>1, <1>2 DEF SetPriority, SetPriorityOf, Sets
<1>3. CASE GetPriority \/ GetPolicy
  BY <1>1, <1>3 DEF GetPriority, GetPolicy
<1>4. ASSUME NEW affinity \in SUBSET (0..Bits - 1), SetAffinity(affinity) PROVE SleepingInv'
  BY <1>1, <1>4 DEF SetAffinity
<1>5. ASSUME NEW n \in 1..MaxSleep, SleepFor(n) PROVE SleepingInv'
  <2>1. n \in Nat
    BY ThreadAssumption
  <2>2. req' = <<n \div Second, n % Second>> /\ due' = n /\ doing' = "sleep"
    BY <1>5 DEF SleepFor, Split
  <2>3. Left' = n /\ req'[1] \in Nat /\ req'[2] \in 0..(Second - 1)
    BY <2>1, <2>2, SplitSums DEF Left
  <2> QED
    BY <2>2, <2>3 DEF SleepingInv
<1>6. ASSUME NEW n \in 1..MaxSleep, Interrupted(n - 1) PROVE SleepingInv'
  <2> DEFINE m == Left - (n - 1)
  <2>1. doing = "sleep" /\ doing' = "sleep" /\ n - 1 < Left /\ due' = due - (n - 1) /\ req' = Split(m)
    BY <1>6 DEF Interrupted
  <2>2. Left \in Nat /\ due = Left
    BY <2>1, ThreadAssumption DEF SleepingInv, Left
  <2>3. m \in Nat /\ due' = m
    BY <2>1, <2>2, ThreadAssumption
  <2> HIDE DEF m
  <2>4. Left' = m /\ req'[1] \in Nat /\ req'[2] \in 0..(Second - 1)
    BY <2>1, <2>3, SplitSums DEF Left, Split
  <2> QED
    BY <2>1, <2>3, <2>4 DEF SleepingInv
<1>7. CASE Wakes
  <2>1. doing = "sleep" /\ doing' = "idle" /\ due' = IF req[2] < Second THEN due - Left ELSE due
    BY <1>7 DEF Wakes
  <2>2. Left \in Int /\ due = Left /\ req[2] < Second
    BY <2>1, ThreadAssumption DEF SleepingInv, Left
  <2>3. due' = 0
    BY <2>1, <2>2
  <2> QED
    BY <2>1, <2>3 DEF SleepingInv
<1> QED
  BY <1>2, <1>3, <1>4, <1>5, <1>6, <1>7 DEF ThreadNext

(***************************************************************************)
(* Signals never shorten SleepFor: when it returns, nothing of the time it *)
(* was given is left, however often nanosleep() was interrupted.           *)
(***************************************************************************)
THEOREM SleepsInFull == ThreadSpec => []SleepsOut
<1>1. ThreadInit => SleepingInv
  BY DEF ThreadInit, SleepingInv
<1>2. SleepingInv /\ UNCHANGED threadVars => SleepingInv'
  BY DEF threadVars, SleepingInv, Left
<1>3. SleepingInv => SleepsOut
  BY DEF SleepingInv, SleepsOut
<1> QED
  BY <1>1, <1>2, <1>3, SleepingStep, PTL DEF ThreadSpec
-----------------------------------------------------------------------------
(***************************************************************************)
(* The characters of a text that grows by one.                             *)
(***************************************************************************)
LEMMA SeenType ==
  ASSUME NEW t, NEW p \in Nat, NEW n \in 0..p
  PROVE  Seen(t, p) \in Nat /\ Seen(t, n) \in Nat /\ Seen(t, n) <= Seen(t, p)
<1> DEFINE A == {q \in 1..p : t[q] \notin Separators}
           B == {q \in 1..n : t[q] \notin Separators}
<1>1. IsFiniteSet(1..p)
  BY FS_Interval
<1>2. A \subseteq 1..p /\ B \subseteq A
  OBVIOUS
<1> HIDE DEF A, B
<1>3. IsFiniteSet(A) /\ IsFiniteSet(B) /\ Cardinality(B) <= Cardinality(A)
  BY ZenonT(30), <1>1, <1>2, FS_Subset
<1>4. Cardinality(A) \in Nat /\ Cardinality(B) \in Nat
  BY <1>3, FS_CardinalityType
<1> QED
  BY Zenon, <1>3, <1>4 DEF Seen, A, B

LEMMA SeenNothing == \A t : Seen(t, 0) = 0
<1> SUFFICES ASSUME NEW t PROVE Seen(t, 0) = 0
  OBVIOUS
<1>1. {q \in 1..0 : t[q] \notin Separators} = {}
  OBVIOUS
<1> QED
  BY Zenon, <1>1, FS_EmptySet DEF Seen

LEMMA SeenAppend ==
  ASSUME NEW S, NEW t \in Seq(S), NEW c \in S
  PROVE  /\ \A p \in 0..Len(t) : Seen(Append(t, c), p) = Seen(t, p)
         /\ Seen(Append(t, c), Len(t) + 1) = Seen(t, Len(t)) + (IF c \in Separators THEN 0 ELSE 1)
<1> DEFINE u == Append(t, c)
           A == {q \in 1..Len(t) : t[q] \notin Separators}
           B == {q \in 1..(Len(t) + 1) : u[q] \notin Separators}
<1>1. Len(t) \in Nat /\ u[Len(t) + 1] = c /\ \A q \in 1..Len(t) : u[q] = t[q]
  OBVIOUS
<1> HIDE DEF u
<1>2. ASSUME NEW p \in 0..Len(t) PROVE Seen(u, p) = Seen(t, p)
  <2>1. {q \in 1..p : u[q] \notin Separators} = {q \in 1..p : t[q] \notin Separators}
    BY <1>1
  <2> QED
    BY Zenon, <2>1 DEF Seen
<1>3. B = IF c \in Separators THEN A ELSE A \cup {Len(t) + 1}
  BY <1>1
<1>4. IsFiniteSet(A) /\ Len(t) + 1 \notin A /\ Cardinality(A) \in Nat
  <2>1. IsFiniteSet(1..Len(t))
    BY <1>1, FS_Interval
  <2>2. A \subseteq 1..Len(t) /\ Len(t) + 1 \notin A
    BY <1>1
  <2> HIDE DEF A
  <2> QED
    BY ZenonT(30), <2>1, <2>2, FS_Subset, FS_CardinalityType
<1> HIDE DEF A, B
<1>5. Cardinality(B) = Cardinality(A) + (IF c \in Separators THEN 0 ELSE 1)
  <2>1. Cardinality(A \cup {Len(t) + 1}) = Cardinality(A) + 1
    BY ZenonT(30), <1>4, FS_AddElement
  <2> QED
    BY <1>3, <1>4, <2>1
<1>6. Seen(u, Len(t) + 1) = Cardinality(B) /\ Seen(t, Len(t)) = Cardinality(A)
  BY DEF Seen, A, B
<1> QED
  BY <1>2, <1>5, <1>6 DEF u

(***************************************************************************)
(* What Is and LastDigit say of the longer text.                           *)
(***************************************************************************)
LEMMA IsAppend ==
  ASSUME NEW S, NEW t \in Seq(S), NEW c \in S, NEW n
  PROVE  /\ Len(Append(t, c)) = Len(t) + 1
         /\ \A p \in 1..Len(t) : Append(t, c)[p] = t[p] /\ (Is(Append(t, c), p, n) <=> Is(t, p, n))
         /\ Append(t, c)[Len(t) + 1] = c
         /\ Is(Append(t, c), Len(t) + 1, n)
              <=> c \notin Separators /\ n = Seen(t, Len(t)) + 1
<1>1. /\ Len(t) \in Nat /\ Len(Append(t, c)) = Len(t) + 1
      /\ Append(t, c)[Len(t) + 1] = c
      /\ \A p \in 1..Len(t) : Append(t, c)[p] = t[p] /\ p \in 0..Len(t)
  OBVIOUS
<1>2. /\ \A p \in 0..Len(t) : Seen(Append(t, c), p) = Seen(t, p)
      /\ Seen(Append(t, c), Len(t) + 1) = Seen(t, Len(t)) + (IF c \in Separators THEN 0 ELSE 1)
  BY SeenAppend
<1> QED
  BY <1>1, <1>2 DEF Is

LEMMA IsWithin ==
  ASSUME NEW S, NEW t \in Seq(S), NEW p \in 1..Len(t), NEW n, Is(t, p, n)
  PROVE  n \in Nat /\ n <= Seen(t, Len(t))
<1>1. Len(t) \in Nat /\ p \in 0..Len(t)
  OBVIOUS
<1> QED
  BY <1>1, SeenType DEF Is

LEMMA LastAppend ==
  ASSUME NEW S, NEW t \in Seq(S), NEW c \in S, NEW v,
         IF c \in Separators THEN LastDigit(t, v) ELSE v = c
  PROVE  LastDigit(Append(t, c), v)
<1> DEFINE u == Append(t, c)
           n == Seen(u, Len(u))
<1> SUFFICES ASSUME NEW p \in 1..Len(u), Is(u, p, n) PROVE u[p] = v
  BY DEF LastDigit
<1>1. Len(t) \in Nat /\ Len(u) = Len(t) + 1 /\ Seen(t, Len(t)) \in Nat
  BY SeenType
<1>2. n = Seen(t, Len(t)) + (IF c \in Separators THEN 0 ELSE 1)
  BY <1>1, SeenAppend
<1>3. CASE p = Len(t) + 1
  BY <1>3, IsAppend
<1>4. ASSUME NEW k, p \in 1..Len(t), Is(u, p, k) PROVE Is(t, p, k) /\ u[p] = t[p]
  BY <1>4, IsAppend
<1> HIDE DEF u, n
<1>5. CASE p # Len(t) + 1
  <2>1. p \in 1..Len(t)
    BY <1>1, <1>5
  <2>2. Is(t, p, n) /\ u[p] = t[p]
    BY <1>4, <2>1
  <2>3. n <= Seen(t, Len(t))
    BY <2>1, <2>2, IsWithin
  <2>4. c \in Separators /\ n = Seen(t, Len(t))
    BY <1>1, <1>2, <2>3
  <2> QED
    BY <2>1, <2>2, <2>4 DEF LastDigit
<1> QED
  BY <1>3, <1>5 DEF u

(***************************************************************************)
(* The pairs of the longer text: a separator adds none, and neither does a *)
(* first digit; a second digit adds the byte it ends.  Extends(t, c, u, w) *)
(* says that w has the bytes of u that t reaches and the one that c ends.  *)
(***************************************************************************)
Extends(t, c, u, w) ==
  /\ \A i \in 0..(Bytes - 1) : 2 * i + 2 <= Seen(t, Len(t)) => w[i] = u[i]
  /\ \A i \in 0..(Bytes - 1) : \A p \in 1..Len(t) :
       c \notin Separators /\ Seen(t, Len(t)) = 2 * i + 1 /\ Is(t, p, 2 * i + 1)
         => w[i] = Hex[t[p]] * 16 + Hex[c]

LEMMA PairsAppend ==
  ASSUME NEW S, NEW t \in Seq(S), NEW c \in S, NEW u, NEW w, Pairs(t, u), Extends(t, c, u, w)
  PROVE  Pairs(Append(t, c), w)
<1> DEFINE a == Append(t, c)
           n == Seen(t, Len(t))
<1>1. Len(t) \in Nat /\ Len(a) = Len(t) + 1 /\ n \in Nat
  BY SeenType
<1>2. ASSUME NEW r \in 1..Len(t), NEW k, Is(t, r, k) PROVE k \in Nat /\ k <= n
  BY <1>2, IsWithin
<1>3. ASSUME NEW r \in 1..Len(t), NEW k PROVE a[r] = t[r] /\ (Is(a, r, k) <=> Is(t, r, k))
  BY IsAppend
<1>4. a[Len(t) + 1] = c /\ \A k : Is(a, Len(t) + 1, k) <=> c \notin Separators /\ k = n + 1
  BY IsAppend
<1> HIDE DEF a, n
<1>5. ASSUME NEW i \in 0..(Bytes - 1), NEW p \in 1..Len(a), NEW q \in 1..Len(a),
             Is(a, p, 2 * i + 1), Is(a, q, 2 * i + 2)
      PROVE  w[i] = Hex[a[p]] * 16 + Hex[a[q]]
  <2>0. i \in Int /\ (p \in 1..Len(t) \/ p = Len(t) + 1) /\ (q \in 1..Len(t) \/ q = Len(t) + 1)
    BY <1>1
  <2>1. CASE q \in 1..Len(t)
    <3>1. Is(t, q, 2 * i + 2) /\ a[q] = t[q]
      BY <1>3, <1>5, <2>1
    <3>2. 2 * i + 2 <= n
      BY <1>2, <2>1, <3>1
    <3>3. p # Len(t) + 1
      BY <1>1, <1>4, <1>5, <2>0, <3>2
    <3>4. p \in 1..Len(t) /\ Is(t, p, 2 * i + 1) /\ a[p] = t[p]
      BY <1>3, <1>5, <2>0, <3>3
    <3>5. u[i] = Hex[t[p]] * 16 + Hex[t[q]]
      BY <2>1, <3>1, <3>4 DEF Pairs
    <3>6. w[i] = u[i]
      BY <3>2 DEF Extends, n
    <3> QED
      BY <3>1, <3>4, <3>5, <3>6
  <2>2. CASE q = Len(t) + 1
    <3>1. c \notin Separators /\ 2 * i + 2 = n + 1 /\ a[q] = c
      BY <1>4, <1>5, <2>2
    <3>2. n = 2 * i + 1 /\ p # Len(t) + 1
      BY <1>1, <1>4, <1>5, <2>0, <3>1
    <3>3. p \in 1..Len(t) /\ Is(t, p, 2 * i + 1) /\ a[p] = t[p]
      BY <1>3, <1>5, <2>0, <3>2
    <3>4. w[i] = Hex[t[p]] * 16 + Hex[c]
      BY <3>1, <3>2, <3>3 DEF Extends, n
    <3> QED
      BY <3>1, <3>3, <3>4
  <2> QED
    BY <2>0, <2>1, <2>2
<1> QED
  BY <1>5 DEF Pairs, a

(***************************************************************************)
(* What the next state says of the text, in terms of the next text.        *)
(***************************************************************************)
LEMMA NextText ==
  /\ Means(text, data)' <=> Means(text', data')
  /\ LastDigit(text, v1)' <=> LastDigit(text', v1')
  /\ Seen(text, Len(text))' = Seen(text', Len(text'))
BY DEF Means, Pairs, Unreached, Is, Seen, LastDigit

(***************************************************************************)
(* Every action keeps what the constructor has read.                       *)
(***************************************************************************)
LEMMA ReadStep ==
  ASSUME ReadInv, WriteInv, UuidNext
  PROVE  ReadInv'
<1>a. text \in Seq(Chars) /\ Len(text) \in Nat /\ index \in Nat /\ Bytes \in Nat /\ Seen(text, Len(text)) \in Nat
  <2>1. text \in Seq(Chars) /\ index \in Nat
    BY DEF ReadInv
  <2>2. Len(text) \in Nat /\ Len(text) \in 0..Len(text)
    BY <2>1
  <2>3. Bytes \in Nat
    BY ZenonT(30), UuidAssumption
  <2> QED
    BY <2>1, <2>2, <2>3, SeenType
<1>b. data \in [0..(Bytes - 1) -> Byte]
  BY DEF WriteInv
<1>1. ASSUME NEW ch \in Chars, Separator(ch) PROVE ReadInv'
  <2>1. parse = "read" /\ text' = Append(text, ch) /\ ch \in Separators /\ UNCHANGED <<pack, v1, index, data, parse>>
    BY <1>1 DEF Separator, Reads
  <2>2. text' \in Seq(Chars) /\ Len(text') = Len(text) + 1 /\ \A i \in 1..Len(text) : text'[i] = text[i] /\ i \in 1..Len(text')
    BY <1>a, <2>1
  <2>3. Seen(text', Len(text')) = Seen(text, Len(text))
    BY <1>a, <2>1, <2>2, SeenAppend
  <2>4. Pairs(text, data) /\ Unreached(text, data)
    BY SMTT(30), <2>1 DEF ReadInv, Means
  <2>5. Pairs(text', data')
    <3>1. Extends(text, ch, data, data')
      BY <2>1 DEF Extends
    <3> QED
      BY <1>a, <2>1, <2>4, <3>1, PairsAppend
  <2>6. Unreached(text', data')
    BY <2>1, <2>3, <2>4 DEF Unreached
  <2>7. pack => LastDigit(text', v1)
    BY <1>a, <2>1, LastAppend DEF ReadInv
  <2>8. Means(text', data')
    BY SMTT(30), <2>5, <2>6 DEF Means
  <2> QED
    BY <2>1, <2>2, <2>3, <2>7, <2>8, NextText DEF ReadInv
<1>2. ASSUME NEW ch \in Chars, FirstDigit(ch) PROVE ReadInv'
  <2>1. /\ parse = "read" /\ text' = Append(text, ch) /\ ch \notin Separators /\ ~pack /\ pack' = TRUE /\ v1' = ch
        /\ UNCHANGED <<index, data, parse>>
    BY <1>2 DEF FirstDigit, Reads
  <2>2. text' \in Seq(Chars) /\ Len(text') = Len(text) + 1 /\ text'[Len(text')] = ch /\ Len(text') \in 1..Len(text')
    BY <1>a, <2>1
  <2>3. Seen(text, Len(text)) = 2 * index /\ Seen(text', Len(text')) = 2 * index + 1
    BY <1>a, <2>1, <2>2, SeenAppend DEF ReadInv
  <2>4. Pairs(text, data) /\ Unreached(text, data)
    BY SMTT(30), <2>1 DEF ReadInv, Means
  <2>5. Pairs(text', data')
    <3>1. \A i \in 0..(Bytes - 1) : Seen(text, Len(text)) # 2 * i + 1
      BY <1>a, <2>3
    <3>2. Extends(text, ch, data, data')
      BY <2>1, <3>1 DEF Extends
    <3> QED
      BY <1>a, <2>1, <2>4, <3>2, PairsAppend
  <2>6. Unreached(text', data')
    BY <1>a, <2>1, <2>3, <2>4 DEF Unreached
  <2>7. LastDigit(text', ch)
    BY <1>a, <2>1, LastAppend
  <2>8. Means(text', data')
    BY <2>5, <2>6 DEF Means
  <2> QED
    BY <1>a, <2>1, <2>2, <2>3, <2>7, <2>8, NextText DEF ReadInv
<1>3. ASSUME NEW ch \in Chars, SecondDigit(ch) PROVE ReadInv'
  <2>1. parse = "read" /\ text' = Append(text, ch) /\ ch \notin Separators /\ pack /\ pack' = FALSE
    BY <1>3 DEF SecondDigit, Reads
  <2>2. /\ text' \in Seq(Chars) /\ Len(text') = Len(text) + 1 /\ text'[Len(text')] = ch /\ Len(text') \in 1..Len(text')
        /\ \A i \in 1..Len(text) : text'[i] = text[i] /\ i \in 1..Len(text')
    BY SMTT(30), <1>a, <2>1
  <2>3. Seen(text, Len(text)) = 2 * index + 1 /\ Seen(text', Len(text')) = 2 * index + 2 /\ index < Bytes
    BY <1>a, <2>1, <2>2, SeenAppend DEF ReadInv
  <2>4. Pairs(text, data) /\ Unreached(text, data) /\ LastDigit(text, v1)
    BY SMTT(30), <2>1 DEF ReadInv, Means
  <2>5. CASE {v1, ch} \subseteq Digits
    <3>1. /\ data' = [data EXCEPT ![index] = Hex[v1] * 16 + Hex[ch]] /\ index' = index + 1
          /\ parse' = IF index + 1 >= Bytes THEN "fill" ELSE parse
      BY <1>3, <2>5 DEF SecondDigit
    <3>2. data'[index] = Hex[v1] * 16 + Hex[ch] /\ \A i \in 0..(Bytes - 1) : i # index => data'[i] = data[i]
      BY <1>a, <1>b, <2>3, <3>1
    <3>3. \A i \in 0..(Bytes - 1) : 2 * i + 2 <= Seen(text, Len(text)) => data'[i] = data[i]
      BY <1>a, <2>3, <3>2
    <3>4. ASSUME NEW i \in 0..(Bytes - 1), NEW p \in 1..Len(text), Seen(text, Len(text)) = 2 * i + 1, Is(text, p, 2 * i + 1)
          PROVE  data'[i] = Hex[text[p]] * 16 + Hex[ch]
      <4>1. i = index
        BY <1>a, <2>3, <3>4
      <4>2. text[p] = v1
        BY SMTT(30), <2>4, <3>4 DEF LastDigit
      <4> QED
        BY <3>2, <4>1, <4>2
    <3>5. Pairs(text', data')
      <4>1. Extends(text, ch, data, data')
        BY <3>3, <3>4 DEF Extends
      <4> QED
        BY <1>a, <2>1, <2>4, <4>1, PairsAppend
    <3>6. Unreached(text', data')
      BY SMTT(30), <1>a, <2>3, <2>4, <3>2 DEF Unreached
    <3>7. Means(text', data')
      BY <3>5, <3>6 DEF Means
    <3> QED
      <4>1. index' \in Nat /\ Seen(text', Len(text')) = 2 * index'
        BY <1>a, <2>3, <3>1
      <4>2. (parse' = "read" /\ index' < Bytes) \/ parse' = "fill"
        BY <1>a, <2>1, <3>1
      <4> QED
        BY <2>1, <2>2, <3>7, <4>1, <4>2, NextText DEF ReadInv
  <2>6. CASE ~({v1, ch} \subseteq Digits)
    <3>1. parse' = "thrown" /\ index' = index
      BY <1>3, <2>6 DEF SecondDigit
    <3>2. PICK i \in 1..Len(text) : text[i] = v1 /\ v1 \notin Separators
      BY <2>1 DEF ReadInv
    <3>3. v1 \in Chars
      BY <1>a, <3>2
    <3>4. \E k \in 1..Len(text') : text'[k] \in Invalid
      BY SMTT(30), <2>1, <2>2, <2>6, <3>2, <3>3 DEF Chars
    <3> QED
      BY SMTT(30), <1>a, <2>2, <3>1, <3>4 DEF ReadInv
  <2> QED
    BY <2>5, <2>6
<1>4. CASE TextEnds
  BY <1>a, <1>4, NextText DEF TextEnds, ReadInv
<1>5. CASE Fill
  <2>1. parse = "fill" /\ text' = text /\ Means(text, data) /\ Seen(text, Len(text)) <= 2 * index + 1
    BY SMTT(30), <1>5 DEF Fill, ReadInv
  <2>2. CASE index < Bytes
    <3>1. data' = [data EXCEPT ![index] = 0] /\ index' = index + 2 /\ parse' = parse
      BY <1>5, <2>2 DEF Fill
    <3>2. data[index] = 0
      BY <1>a, <2>1, <2>2 DEF Means, Unreached
    <3>3. data' = data
      BY SMTT(30), <1>b, <3>1, <3>2
    <3> QED
      BY <1>a, <2>1, <3>1, <3>3, NextText DEF ReadInv
  <2>3. CASE ~(index < Bytes)
    <3>1. UNCHANGED <<text, data, index>> /\ parse' = "done"
      BY SMTT(30), <1>5, <2>3 DEF Fill
    <3> QED
      BY <1>a, <2>1, <3>1, NextText DEF ReadInv
  <2> QED
    BY <2>2, <2>3
<1>6. CASE string
  BY <1>6, NextText DEF string, readVars, ReadInv
<1> QED
  BY <1>1, <1>2, <1>3, <1>4, <1>5, <1>6 DEF UuidNext, Chars

(***************************************************************************)
(* The digits of a byte: string() takes them apart again.                  *)
(***************************************************************************)
LEMMA BytesPositive == Bytes \in Nat \ {0}
BY ZenonT(30), UuidAssumption

LEMMA ZeroByte == 0 \in Byte
<1>1. PICK c \in Digits : Hex[c] = 0
  BY ZenonT(30), UuidAssumption DEF Digits
<1>2. Hex[c] * 16 + Hex[c] = 0
  BY <1>1
<1> QED
  BY <1>2 DEF Byte

LEMMA SameByte ==
  ASSUME NEW i \in Int, NEW k \in Int, 2 * i + 1 = 2 * k + 1
  PROVE  i = k
OBVIOUS

LEMMA Nibbles ==
  ASSUME NEW x \in 0..15, NEW y \in 0..15
  PROVE  (x * 16 + y) \div 16 = x /\ (x * 16 + y) % 16 = y
OBVIOUS

LEMMA DigitsOf ==
  ASSUME NEW b \in Byte
  PROVE  /\ Digit(b \div 16) \in Digits /\ Digit(b % 16) \in Digits
         /\ b = Hex[Digit(b \div 16)] * 16 + Hex[Digit(b % 16)]
<1>1. PICK c \in Digits, d \in Digits : b = Hex[c] * 16 + Hex[d]
  BY DEF Byte
<1>2. Hex[c] \in 0..15 /\ Hex[d] \in 0..15
  BY ZenonT(30), UuidAssumption DEF Digits
<1>3. b \div 16 = Hex[c] /\ b % 16 = Hex[d]
  BY Zenon, <1>1, <1>2, Nibbles
<1>4. ASSUME NEW e \in Digits PROVE Digit(Hex[e]) \in Digits /\ Hex[Digit(Hex[e])] = Hex[e]
  BY SMTT(30) DEF Digit
<1> QED
  BY SMTT(30), <1>1, <1>3, <1>4

LEMMA WrittenText ==
  /\ Seen(result, Len(result))' = Seen(result', Len(result'))
  /\ Pairs(result, data)' <=> Pairs(result', data')
BY DEF Pairs, Is, Seen

(***************************************************************************)
(* One more byte of string(): its digits are the next pair of the text.    *)
(***************************************************************************)
LEMMA ByteWritten ==
  ASSUME NEW S, NEW t \in Seq(S), NEW u, NEW k \in 0..(Bytes - 1), NEW c \in S, NEW d \in S,
         c \notin Separators, d \notin Separators,
         Seen(t, Len(t)) = 2 * k, Pairs(t, u), u[k] = Hex[c] * 16 + Hex[d]
  PROVE  LET w == Append(Append(t, c), d)
         IN  w \in Seq(S) /\ Seen(w, Len(w)) = 2 * (k + 1) /\ Pairs(w, u)
<1> DEFINE v == Append(t, c)
           w == Append(v, d)
<1>1. k \in Int /\ Len(t) \in Nat
  BY BytesPositive
<1>2. v \in Seq(S) /\ Len(v) = Len(t) + 1
  OBVIOUS
<1>3. Seen(v, Len(v)) = 2 * k + 1
  BY SMTT(30), <1>1, <1>2, SeenAppend
<1>4. Pairs(v, u)
  <2>1. \A i \in 0..(Bytes - 1) : Seen(t, Len(t)) # 2 * i + 1
    BY <1>1
  <2>2. Extends(t, c, u, u)
    BY <2>1 DEF Extends
  <2> QED
    BY <2>2, PairsAppend
<1>5. LastDigit(v, c)
  BY LastAppend
<1> HIDE DEF v
<1>6. w \in Seq(S) /\ Len(w) = Len(v) + 1
  BY <1>2
<1>7. Seen(w, Len(w)) = 2 * (k + 1)
  BY SMTT(30), <1>1, <1>2, <1>3, <1>6, SeenAppend
<1>8. ASSUME NEW i \in 0..(Bytes - 1), NEW p \in 1..Len(v), Seen(v, Len(v)) = 2 * i + 1, Is(v, p, 2 * i + 1)
      PROVE  u[i] = Hex[v[p]] * 16 + Hex[d]
  <2>1. i \in Int /\ 2 * i + 1 = 2 * k + 1
    BY <1>3, <1>8, BytesPositive
  <2>2. i = k
    BY Zenon, <1>1, <2>1, SameByte
  <2>3. v[p] = c
    BY <1>3, <1>5, <1>8, <2>1 DEF LastDigit
  <2> QED
    BY <2>2, <2>3
<1>9. Pairs(w, u)
  <2>1. Extends(v, d, u, u)
    BY <1>8 DEF Extends
  <2> QED
    BY <1>2, <1>4, <2>1, PairsAppend
<1> QED
  BY <1>6, <1>7, <1>9 DEF v

(***************************************************************************)
(* Every action keeps what string() has written.                           *)
(***************************************************************************)
LEMMA WriteStep ==
  ASSUME ReadInv, WriteInv, UuidNext
  PROVE  WriteInv'
<1> DEFINE S == Digits \cup {"-"}
<1>a. Bytes \in Nat /\ 0 \in Byte
  BY BytesPositive, ZeroByte
<1>b. data \in [0..(Bytes - 1) -> Byte] /\ result \in Seq(S) /\ wrote \in 0..Bytes
  BY SMTT(30) DEF WriteInv
<1>1. ASSUME data' \in [0..(Bytes - 1) -> Byte], UNCHANGED writeVars, parse # "done"
      PROVE  WriteInv'
  <2>1. wrote' = 0 /\ wrote = 0 /\ result' = result
    BY <1>1 DEF WriteInv, writeVars
  <2>2. Seen(result, Len(result)) = 0
    BY <2>1 DEF WriteInv
  <2>3. Pairs(result, data')
    <3> SUFFICES ASSUME NEW i \in 0..(Bytes - 1), NEW q \in 1..Len(result), Is(result, q, 2 * i + 2) PROVE FALSE
      BY DEF Pairs
    <3>1. Len(result) \in Nat /\ q \in 0..Len(result) /\ i \in Nat
      BY <1>a, <1>b
    <3>2. Seen(result, q) <= Seen(result, Len(result))
      BY <3>1, SeenType
    <3> QED
      BY SMTT(30), <2>2, <3>1, <3>2 DEF Is
  <2> QED
    <3>1. Seen(result', Len(result')) = 2 * wrote' /\ Pairs(result', data')
      BY <2>1, <2>2, <2>3
    <3>2. wrote' \in 0..Bytes /\ result' \in Seq(S)
      BY <1>b, <2>1
    <3> QED
      BY <1>1, <2>1, <3>1, <3>2, WrittenText DEF WriteInv
<1>2. ASSUME NEW ch \in Chars, Separator(ch) \/ FirstDigit(ch) PROVE WriteInv'
  BY <1>1, <1>2, <1>b DEF Separator, FirstDigit, Reads
<1>3. ASSUME NEW ch \in Chars, SecondDigit(ch) PROVE WriteInv'
  <2>1. UNCHANGED writeVars /\ parse = "read"
    BY <1>3 DEF SecondDigit, Reads
  <2>2. CASE {v1, ch} \subseteq Digits
    <3>1. data' = [data EXCEPT ![index] = Hex[v1] * 16 + Hex[ch]]
      BY <1>3, <2>2 DEF SecondDigit
    <3>2. Hex[v1] * 16 + Hex[ch] \in Byte
      BY <2>2 DEF Byte
    <3> QED
      BY ZenonT(30), <1>1, <1>b, <2>1, <3>1, <3>2
  <2>3. CASE ~({v1, ch} \subseteq Digits)
    BY <1>1, <1>3, <1>b, <2>1, <2>3 DEF SecondDigit
  <2> QED
    BY <2>2, <2>3
<1>4. CASE TextEnds \/ Fill
  BY SMTT(30), <1>1, <1>4, <1>a, <1>b DEF TextEnds, Fill
<1>5. CASE string
  <2> DEFINE hi == Digit(data[wrote] \div 16)
             lo == Digit(data[wrote] % 16)
             byte == Append(Append(result, hi), lo)
  <2>1. /\ parse = "done" /\ wrote < Bytes /\ wrote' = wrote + 1 /\ parse' = parse /\ data' = data
        /\ result' = IF wrote' \in Dashes THEN Append(byte, "-") ELSE byte
    BY <1>5 DEF string, readVars
  <2>2. wrote \in 0..(Bytes - 1) /\ wrote' \in 0..Bytes
    BY <1>a, <1>b, <2>1
  <2>3. hi \in Digits /\ lo \in Digits /\ data[wrote] = Hex[hi] * 16 + Hex[lo]
    BY <1>b, <2>2, DigitsOf
  <2>4. hi \notin Separators /\ lo \notin Separators /\ hi \in S /\ lo \in S /\ "-" \in S /\ "-" \in Separators
    BY ZenonT(30), <2>3, UuidAssumption DEF Separators, Digits
  <2> HIDE DEF hi, lo, S
  <2>5. byte \in Seq(S) /\ Seen(byte, Len(byte)) = 2 * wrote' /\ Pairs(byte, data)
    <3>1. Seen(result, Len(result)) = 2 * wrote /\ Pairs(result, data)
      BY DEF WriteInv
    <3>2. byte \in Seq(S) /\ Seen(byte, Len(byte)) = 2 * (wrote + 1) /\ Pairs(byte, data)
      BY Zenon, <1>b, <2>2, <2>3, <2>4, <3>1, ByteWritten
    <3> QED
      BY <2>1, <3>2
  <2> HIDE DEF byte
  <2>6. LET w == Append(byte, "-") IN w \in Seq(S) /\ Seen(w, Len(w)) = 2 * wrote' /\ Pairs(w, data)
    <3> DEFINE w == Append(byte, "-")
    <3>1. w \in Seq(S) /\ Len(w) = Len(byte) + 1 /\ Len(byte) \in Nat
      BY <2>4, <2>5
    <3>2. Seen(w, Len(byte) + 1) = Seen(byte, Len(byte)) + 0
      BY SMTT(30), <2>4, <2>5, SeenAppend
    <3>3. Extends(byte, "-", data, data)
      BY <2>4 DEF Extends
    <3>4. Pairs(w, data)
      BY <2>4, <2>5, <3>3, PairsAppend
    <3> QED
      BY <2>2, <2>5, <3>1, <3>2, <3>4
  <2>7. result' \in Seq(S) /\ Seen(result', Len(result')) = 2 * wrote' /\ Pairs(result', data)
    BY <2>1, <2>5, <2>6
  <2> QED
    BY <1>b, <2>1, <2>2, <2>7, WrittenText DEF WriteInv, S
<1> QED
  BY <1>2, <1>3, <1>4, <1>5 DEF UuidNext, Chars

(***************************************************************************)
(* The constructor of UUID reads any text as the bytes it means, throws    *)
(* only for a character it does not know, and string() writes a text that  *)
(* means the same bytes, for any number of bytes and any dashes.           *)
(***************************************************************************)
THEOREM TextsRead == UuidSpec => []TextMeansData
<1>1. UuidInit => ReadInv /\ WriteInv
  <2> SUFFICES ASSUME UuidInit PROVE ReadInv /\ WriteInv
    OBVIOUS
  <2>1. /\ text = <<>> /\ result = <<>> /\ index = 0 /\ wrote = 0 /\ pack = FALSE /\ parse = "read"
        /\ data = [i \in 0..(Bytes - 1) |-> 0] /\ Len(<<>>) = 0 /\ Bytes \in Nat \ {0}
    BY ZenonT(30), UuidAssumption DEF UuidInit
  <2>2. Seen(<<>>, 0) = 0
    BY SeenNothing
  <2>3. Pairs(<<>>, data) /\ Unreached(<<>>, data)
    BY <2>1 DEF Pairs, Unreached
  <2>4. ReadInv
    BY <2>1, <2>2, <2>3 DEF ReadInv, Means
  <2>5. WriteInv
    BY SMTT(30), <2>1, <2>2, <2>3, ZeroByte DEF WriteInv
  <2> QED
    BY <2>4, <2>5
<1>2. ReadInv /\ WriteInv /\ UNCHANGED uuidVars => (ReadInv /\ WriteInv)'
  <2> SUFFICES ASSUME ReadInv, WriteInv, UNCHANGED uuidVars PROVE ReadInv' /\ WriteInv'
    OBVIOUS
  <2>1. UNCHANGED <<text, pack, v1, index, data, parse, wrote, result>>
    BY DEF uuidVars, readVars, writeVars
  <2>2. ReadInv'
    BY <2>1, NextText DEF ReadInv
  <2>3. WriteInv'
    BY <2>1, WrittenText DEF WriteInv
  <2> QED
    BY <2>2, <2>3
<1>3. ReadInv /\ WriteInv => TextMeansData
  <2> SUFFICES ASSUME ReadInv, WriteInv PROVE TextMeansData
    OBVIOUS
  <2>1. ASSUME wrote = Bytes PROVE Means(result, data)
    <3>1. \A i \in 0..(Bytes - 1) : ~(2 * i + 2 > 2 * Bytes)
      BY BytesPositive
    <3> QED
      BY <2>1, <3>1 DEF WriteInv, Means, Unreached
  <2> QED
    BY <2>1 DEF ReadInv, TextMeansData
<1> QED
  BY <1>1, <1>2, <1>3, ReadStep, WriteStep, PTL DEF UuidSpec
=============================================================================
