------------------------- MODULE MCHandlerRegistry -------------------------
(***************************************************************************)
(* The registry under one of its two APIs at a time: Init chooses which.   *)
(* The legacy one is followed for the ids of LegacyIds only, the instance  *)
(* one, which identifies a registration by its context, for one function.  *)
(***************************************************************************)
EXTENDS HandlerRegistry

CONSTANTS InstanceCallbacks, LegacyIds

ASSUME InstanceCallbacksAssumption == InstanceCallbacks \subseteq Callbacks

VARIABLE api  \* the API that callers use

(* The addresses that calloc returns are interchangeable, and so are bases. *)
Symmetry == Permutations(Contexts) \cup Permutations(Bases)

LegacyKeys == {key \in Keys : key[2] \in LegacyIds \cup {ANY}}

ApiInit == Init /\ api \in Apis

RegisterInstance ==
  /\ api = "instance"
  /\ \E key \in Keys, f \in InstanceCallbacks, a \in Args : InstanceRegister(key, f, a)
  /\ UNCHANGED api
UnregisterInstance ==
  /\ api = "instance"
  /\ \E h \in held, key \in Keys : InstanceUnregister(h, key)
  /\ UNCHANGED api
RegisterLegacy ==
  /\ api = "legacy"
  /\ \E key \in LegacyKeys, f \in Callbacks, a \in Args : LegacyRegister(key, f, a)
  /\ UNCHANGED api
UnregisterLegacy ==
  /\ api = "legacy"
  /\ \E key \in LegacyKeys, f \in Callbacks : LegacyUnregister(key, f)
  /\ UNCHANGED api
Clear == RemoveAll /\ UNCHANGED api

ApiNext ==
  RegisterInstance \/ UnregisterInstance \/ RegisterLegacy \/ UnregisterLegacy \/ Clear

ApiSpec == ApiInit /\ [][ApiNext]_<<vars, api>>

-----------------------------------------------------------------------------
(* With the instance API every event calls the registrations in force that *)
(* match it, in the order in which they were made, however they are spread *)
(* over the nodes.                                                         *)
ContextList(list) == [k \in DOMAIN list |-> list[k].ctx]
Called ==
  [event \in Events |-> IF api = "legacy" THEN <<>> ELSE ContextList(Plan(event))]
Instances == INSTANCE EventHandlers WITH calls <- Called

InstancesImplementHandlers == Instances!Spec

(* esp_event.h:286-288: unregistering with a wildcard leaves handlers of   *)
(* specific ids or bases alone, and the other way round.                   *)
LegacyKeepsOtherKeys ==
  [][api = "legacy" =>
       LET changed == {key \in LegacyKeys : RegisteredAt(key)' # RegisteredAt(key)} IN
       \A key \in LegacyKeys, f \in Callbacks :
         changed \subseteq {key} \/ ~LegacyUnregister(key, f)]_vars
=============================================================================
