----------------------------- MODULE FTLOSRExit -----------------------------
(***************************************************************************)
(* The exception-path register handling of an FTL OSR exit               *)
(* (ftl/FTLOSRExit.cpp): pure operators over bounded inputs, and the    *)
(* steps of one exit's exception path.                                    *)
(*                                                                         *)
(* An OSR exit reads its values from the locations of a stackmap record.  *)
(* When the exit is the handler of a JS call that might throw, the call  *)
(* clobbers the volatile registers, so before the call the registers the *)
(* exit will read are gathered (gatherRegistersToSpillForCallIfException),*)
(* stored into a stack spill slot (spillRegistersToSpillSlot), and loaded *)
(* back on the exit path (recoverRegistersFromSpillSlot).  The contents   *)
(* of a register is abstracted to the register's own name, so a value     *)
(* loaded into the wrong register is visible.                             *)
(***************************************************************************)
EXTENDS Naturals, Sequences

CONSTANTS
    GPRCount,       \* general purpose registers 1..GPRCount
    FPRCount,       \* floating point registers 1..FPRCount
    VolatileGPRs,   \* the GPRs of RegisterSet::volatileRegistersForJSCall()
    VolatileFPRs,   \* the FPRs of RegisterSet::volatileRegistersForJSCall()
    LocationCount   \* length of record.locations

GPR(i) == <<"gpr", i>>
FPR(i) == <<"fpr", i>>
Registers == {GPR(i) : i \in 1..GPRCount} \cup {FPR(i) : i \in 1..FPRCount}
VolatileRegisters == {GPR(i) : i \in VolatileGPRs} \cup {FPR(i) : i \in VolatileFPRs}

\* ExceptionType of an OSRExitDescriptor.
ExceptionTypes == {"None", "JSCall", "GetById", "PutById", "LazySlowPath", "SubGenerator"}

(***************************************************************************)
(* OSRExitDescriptor's classification of its exception type.              *)
(***************************************************************************)
WillArriveAtExitFromIndirectExceptionCheck(t) ==
    t \in {"JSCall", "GetById", "PutById", "LazySlowPath", "SubGenerator"}
MightArriveAtOSRExitFromGenericUnwind(t) == t \in {"JSCall", "GetById", "PutById"}
MightArriveAtOSRExitFromCallOperation(t) == t \in {"GetById", "PutById", "SubGenerator"}
NeedsRegisterRecoveryOnGenericUnwindOSRExitPath(t) == t = "JSCall"
IsExceptionHandler(t) == t # "None"

(***************************************************************************)
(* An FTL::Location: a register, memory addressed off a GPR, or a value   *)
(* that needs no register (a constant or a stack slot).                   *)
(***************************************************************************)
Locations ==
    [kind : {"gpr", "indirect"}, reg : 1..GPRCount]
      \cup [kind : {"fpr"}, reg : 1..FPRCount]
      \cup [kind : {"constant"}, reg : {0}]
InvolvesGPR(l) == l.kind \in {"gpr", "indirect"}
IsFPR(l) == l.kind = "fpr"
RegisterOf(l) == IF IsFPR(l) THEN FPR(l.reg) ELSE GPR(l.reg)

\* An ExitValue: an exit argument, a recovery of two arguments, or a value
\* that reads no location (constant, dead, in the JS stack, ...).
ExitValues ==
    [kind : {"argument"}, argument : 1..LocationCount]
      \cup [kind : {"recovery"}, left : 1..LocationCount, right : 1..LocationCount]
      \cup [kind : {"other"}]

\* The record locations an exit value reads.
LocationsRead(v) ==
    CASE v.kind = "argument" -> {v.argument}
      [] v.kind = "recovery" -> {v.left, v.right}
      [] OTHER -> {}

(***************************************************************************)
(* gatherRegistersToSpillForCallIfException: the volatile registers the  *)
(* exit values of the descriptor and of its materializations' properties *)
(* read.  The lambda handleLocation keeps a location's GPR or FPR if it   *)
(* is volatile.                                                           *)
(***************************************************************************)
HandleLocation(l) ==
    IF InvolvesGPR(l) /\ GPR(l.reg) \in VolatileRegisters THEN {GPR(l.reg)}
    ELSE IF IsFPR(l) /\ FPR(l.reg) \in VolatileRegisters THEN {FPR(l.reg)}
    ELSE {}

AddNeededRegisters(v, locations) ==
    UNION {HandleLocation(locations[i]) : i \in LocationsRead(v)}

GatherRegistersToSpillForCallIfException(values, materializationValues, locations) ==
    UNION {AddNeededRegisters(v, locations) : v \in values \cup materializationValues}

(***************************************************************************)
(* Both spill and recovery walk the GPRs, then the FPRs, in register      *)
(* order, giving the k-th preserved register slot stackSpillSlot + k.     *)
(***************************************************************************)
GPRsInOrder(preserve) == SelectSeq([i \in 1..GPRCount |-> GPR(i)], LAMBDA r : r \in preserve)
FPRsInOrder(preserve) == SelectSeq([i \in 1..FPRCount |-> FPR(i)], LAMBDA r : r \in preserve)
SpillOrder(preserve) == GPRsInOrder(preserve) \o FPRsInOrder(preserve)

\* The RELEASE_ASSERT of spill and recovery.
SpillAllowed(t) ==
    MightArriveAtOSRExitFromGenericUnwind(t) \/ MightArriveAtOSRExitFromCallOperation(t)

\* spillRegistersToSpillSlot: slot offset -> the contents stored there.
SpillRegistersToSpillSlot(preserve, regs) ==
    LET order == SpillOrder(preserve)
    IN  [k \in 0..Len(order) - 1 |-> regs[order[k + 1]]]

\* A recovery that walks the FPRs first.
RecoverRegistersFromSpillSlotFPRFirst(preserve, slot, regs) ==
    LET order == FPRsInOrder(preserve) \o GPRsInOrder(preserve)
    IN  [r \in Registers |->
            IF \E k \in 1..Len(order) : order[k] = r
            THEN slot[CHOOSE k \in 0..Len(order) - 1 : order[k + 1] = r]
            ELSE regs[r]]

\* recoverRegistersFromSpillSlot: the registers after the loads.
RecoverRegistersFromSpillSlot(preserve, slot, regs) ==
    LET order == SpillOrder(preserve)
    IN  [r \in Registers |->
            IF \E k \in 1..Len(order) : order[k] = r
            THEN slot[CHOOSE k \in 0..Len(order) - 1 : order[k + 1] = r]
            ELSE regs[r]]

(***************************************************************************)
(* The exception path of a call: gather and spill before it, the call     *)
(* clobbering every volatile register, recovery on the exit path.        *)
(***************************************************************************)
Clobbered == "clobbered"

RegistersAtExit(values, materializationValues, locations) ==
    LET preserve == GatherRegistersToSpillForCallIfException(values, materializationValues, locations)
        before == [r \in Registers |-> r]
        slot == SpillRegistersToSpillSlot(preserve, before)
        afterCall == [r \in Registers |-> IF r \in VolatileRegisters THEN Clobbered ELSE r]
    IN  RecoverRegistersFromSpillSlot(preserve, slot, afterCall)

\* The registers an exit reads through the record's locations.
RegistersRead(values, locations) ==
    {RegisterOf(locations[i]) : i \in {i \in UNION {LocationsRead(v) : v \in values} :
                                         locations[i].kind # "constant"}}

\* Small descriptors: at most one exit value and one materialization property.
SmallValueSets == {{}} \cup {{v} : v \in ExitValues}
RecordLocations == [1..LocationCount -> Locations]

\* Every register an exit reads holds, at the exit, what it held before
\* the call, for every small record and descriptor.
ExitRegistersRecovered ==
    \A locations \in RecordLocations, vs \in SmallValueSets, ms \in SmallValueSets :
        LET regs == RegistersAtExit(vs, ms, locations)
        IN  \A r \in RegistersRead(vs \cup ms, locations) : regs[r] = r

-----------------------------------------------------------------------------
(***************************************************************************)
(* The life of one exception-handling OSR exit: lowering creates the     *)
(* descriptor, the exits of a JS call gather their registers, the code   *)
(* before the call spills them, the call throws and clobbers the volatile *)
(* registers, and the exit path recovers them.                            *)
(***************************************************************************)
VARIABLES
    exceptionType,  \* OSRExitDescriptor::m_exceptionType
    exitPhase       \* how far the exception path of the exit has run

exitVars == <<exceptionType, exitPhase>>

ExitInit ==
    /\ exceptionType \in ExceptionTypes
    /\ exitPhase = "lowered"

\* gatherRegistersToSpillForCallIfException, for the exits that need
\* recovery on their generic unwind path (its RELEASE_ASSERT: a JS call).
GatherRegistersToSpill ==
    /\ exitPhase = "lowered"
    /\ NeedsRegisterRecoveryOnGenericUnwindOSRExitPath(exceptionType)
    /\ exitPhase' = "gathered"
    /\ UNCHANGED exceptionType

\* spillRegistersToSpillSlot, run before the call.
SpillBeforeCall ==
    /\ exitPhase = "gathered"
    /\ SpillAllowed(exceptionType)
    /\ exitPhase' = "spilled"
    /\ UNCHANGED exceptionType

\* The call throws; generic unwind reaches the exit with the volatile
\* registers clobbered.
CallThrows ==
    /\ exitPhase = "spilled"
    /\ IsExceptionHandler(exceptionType)
    /\ MightArriveAtOSRExitFromGenericUnwind(exceptionType)
    /\ exitPhase' = "thrown"
    /\ UNCHANGED exceptionType

\* recoverRegistersFromSpillSlot on the exit path.
RecoverAtExit ==
    /\ exitPhase = "thrown"
    /\ SpillAllowed(exceptionType)
    /\ exitPhase' = "exited"
    /\ UNCHANGED exceptionType

ExitNext == GatherRegistersToSpill \/ SpillBeforeCall \/ CallThrows \/ RecoverAtExit

ExitSpec == ExitInit /\ [][ExitNext]_exitVars

(***************************************************************************)
(* An exit reached through a JS call's generic unwind reads, in every    *)
(* register its exit values and materialization properties use, what the *)
(* register held before the call: gatherRegistersToSpillForCall-         *)
(* IfException picks the volatile ones, and the store order of           *)
(* spillRegistersToSpillSlot and the load order of                       *)
(* recoverRegistersFromSpillSlot agree.                                   *)
(***************************************************************************)
OSRExitRegistersRestored ==
    exitPhase = "exited" =>
        /\ WillArriveAtExitFromIndirectExceptionCheck(exceptionType)
        /\ ExitRegistersRecovered
=============================================================================
