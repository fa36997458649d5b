--------------------------- MODULE ValidateProofs ---------------------------
(***************************************************************************)
(* What the gates and the shared buffers rely on: lettuce_capability_check *)
(* and the validators decide by the grants and the registry, whatever the  *)
(* tables hold.  CapabilityProofs, CallGatesProofs, SharedBufferProofs and *)
(* El0Proofs build on these lemmas.                                        *)
(***************************************************************************)
EXTENDS Validate, Sequences, NaturalsInduction, WellFoundedInduction, TLAPS

\* An entry carries a grant exactly while it is active: create fills it, and
\* revoke clears every field again.
GrantWhileActive ==
    \A s \in Slots : IF capability_table[s].active
                     THEN capability_table[s].grant \in Grants
                     ELSE capability_table[s].grant = NoGrant

\* What lettuce_capability_check relies on.  It is inductive on its own: an
\* assignment to any slot leaves it true, whatever the free list says.
TableOK == capability_table \in [Slots -> Entries] /\ GrantWhileActive

LEMMA NextGenerationType ==
    ASSUME NEW g \in Generations PROVE next_generation(g) \in Generations
BY CapabilityAssumption DEF Generations, next_generation

\* decode_handle yields a slot of the table.
LEMMA DecodedSlot ==
    ASSUME NEW handle \in HandleValues, decode_handle(handle)
    PROVE  SlotOf(handle) \in Slots
BY CapabilityAssumption DEF HandleValues, decode_handle, SlotOf, Slots

\* An entry that create fills holds a grant.
LEMMA CreatedGrant ==
    ASSUME NEW owner \in Services, NEW target \in Services,
           NEW operation \in Operations, NEW resource \in Resources,
           NEW permissions,
           CreateArgumentsOK(owner, target, operation, permissions, resource)
    PROVE  [owner |-> owner, target |-> target, operation |-> operation,
            resource |-> resource, permissions |-> permissions] \in Grants
BY DEF CreateArgumentsOK, Grants

LEMMA TableInit == CapInit => TableOK
BY CapabilityAssumption
   DEF CapInit, TableOK, GrantWhileActive, Entries, Slots, Generations

\* The table with one entry replaced.
LEMMA TableStore ==
    ASSUME TableOK, NEW slot, NEW entry,
           slot \in Slots => /\ entry \in Entries
                            /\ IF entry.active THEN entry.grant \in Grants
                                               ELSE entry.grant = NoGrant,
           capability_table' = [capability_table EXCEPT ![slot] = entry]
    PROVE  TableOK'
<1>1. capability_table' \in [Slots -> Entries]
  BY Zenon DEF TableOK
<1>2. ASSUME NEW s \in Slots
      PROVE  IF capability_table'[s].active
             THEN capability_table'[s].grant \in Grants
             ELSE capability_table'[s].grant = NoGrant
  <2>1. capability_table'[s] = IF s = slot THEN entry ELSE capability_table[s]
    BY DEF TableOK
  <2> QED BY <2>1 DEF TableOK, GrantWhileActive
<1> QED BY <1>1, <1>2 DEF TableOK, GrantWhileActive

LEMMA TableCreate ==
    ASSUME TableOK,
           NEW owner \in Services, NEW target \in Services,
           NEW operation \in Operations, NEW resource \in Resources,
           NEW permissions,
           lettuce_capability_create(owner, target, operation, permissions, resource)
    PROVE  TableOK'
<1> DEFINE slot == free_slots[free_slot_count - 1]
           grant == [owner |-> owner, target |-> target, operation |-> operation,
                     resource |-> resource, permissions |-> permissions]
           entry == [generation |-> capability_table[slot].generation,
                     active |-> TRUE, grant |-> grant]
<1>1. grant \in Grants
  BY CreatedGrant DEF lettuce_capability_create
<1>2. capability_table' = [capability_table EXCEPT ![slot] = entry]
  BY DEF lettuce_capability_create
<1> HIDE DEF slot, grant
<1>3. slot \in Slots => entry \in Entries
  BY <1>1 DEF TableOK, Entries
<1>4. entry.active /\ entry.grant \in Grants
  BY <1>1
<1> HIDE DEF entry
<1> QED BY <1>2, <1>3, <1>4, TableStore, Zenon

LEMMA TableRevoke ==
    ASSUME TableOK, NEW handle \in HandleValues, lettuce_capability_revoke(handle)
    PROVE  TableOK'
<1> DEFINE slot == SlotOf(handle)
           entry == [generation |-> next_generation(capability_table[slot].generation),
                     active |-> FALSE, grant |-> NoGrant]
<1>1. capability_table' = [capability_table EXCEPT ![slot] = entry]
  BY DEF lettuce_capability_revoke
<1> HIDE DEF slot
<1>2. slot \in Slots => entry \in Entries
  BY NextGenerationType DEF TableOK, Entries
<1>3. ~entry.active /\ entry.grant = NoGrant
  OBVIOUS
<1> HIDE DEF entry
<1> QED BY <1>1, <1>2, <1>3, TableStore, Zenon

LEMMA TableNext == TableOK /\ [CapNext]_capVars => TableOK'
<1> SUFFICES ASSUME TableOK, [CapNext]_capVars PROVE TableOK' OBVIOUS
<1>1. CASE UNCHANGED capVars
  BY <1>1 DEF capVars, TableOK, GrantWhileActive
<1>2. CASE CapChange
  BY <1>2, TableCreate, TableRevoke DEF CapChange
<1>3. CASE CapRefusal
  BY <1>1, <1>3 DEF CapRefusal, CreateRefused, RevokeRefused
<1> QED BY <1>1, <1>2, <1>3 DEF CapNext

LEMMA HandleParts ==
    ASSUME NEW h \in Handles
    PROVE  /\ h[1] \in Generations
           /\ SlotOf(h) \in Slots
           /\ h = make_handle(SlotOf(h), h[1])
BY DEF Handles, SlotOf, Slots, make_handle

LEMMA MadeHandle ==
    ASSUME NEW s \in Slots, NEW g \in Generations
    PROVE  /\ make_handle(s, g) \in Handles
           /\ SlotOf(make_handle(s, g)) = s
           /\ make_handle(s, g)[1] = g
BY DEF Handles, SlotOf, Slots, make_handle

LEMMA NoGrantIsNone == NoGrant \notin Grants
BY CapabilityAssumption DEF NoGrant, Grants

\* What decode_handle and the entry test let through is a handle value that
\* make_handle can produce.
LEMMA LiveIsHandle ==
    ASSUME TableOK, NEW handle \in HandleValues, decode_handle(handle), Live(handle)
    PROVE  handle \in Handles
<1>1. SlotOf(handle) \in Slots
  BY DecodedSlot
<1>2. handle[1] \in Generations
  BY <1>1 DEF Live, TableOK, Entries
<1>3. handle = make_handle(SlotOf(handle), handle[1])
  BY DEF HandleValues, make_handle, SlotOf
<1> QED BY <1>1, <1>2, <1>3, MadeHandle

-----------------------------------------------------------------------------
(***************************************************************************)
(* The validators of the call gates (Validate).                            *)
(***************************************************************************)
\* Every non-empty set of natural numbers has a least element.
LEMMA LeastExists ==
    ASSUME NEW T \in SUBSET Nat, T # {}
    PROVE  \E x \in T : \A y \in T : x <= y
<1>1. \E x \in T : \A y \in T : ~(y < x)
  <2>1. PICK x \in T : \A y \in T : ~(<<y, x>> \in OpToRel(<, Nat))
    BY NatLessThanWellFounded, WFMin, Zenon
  <2>2. \A y \in T : <<y, x>> \in OpToRel(<, Nat) <=> y < x
    BY DEF OpToRel
  <2> QED BY <2>1, <2>2, Zenon
<1> QED BY <1>1

\* No test failed exactly when the status is OK.
LEMMA FirstFailureIsOK ==
    ASSUME NEW tests, NEW n \in Nat, DOMAIN tests = 1 .. n,
           \A i \in 1 .. n : tests[i][1] => tests[i][2] # "OK"
    PROVE  FirstFailure(tests) = "OK" <=> \A i \in 1 .. n : ~tests[i][1]
<1> DEFINE failed == {i \in 1 .. n : tests[i][1]}
           first == CHOOSE i \in failed : \A j \in failed : i <= j
<1>1. FirstFailure(tests) = IF failed = {} THEN "OK" ELSE tests[first][2]
  BY DEF FirstFailure
<1>2. failed # {} => first \in failed
  <2>1. failed \in SUBSET Nat
    OBVIOUS
  <2> HIDE DEF failed
  <2> QED BY <2>1, LeastExists, Zenon
<1>3. failed # {} => tests[first][2] # "OK"
  <2> HIDE DEF first
  <2> QED BY <1>2
<1>4. failed = {} <=> \A i \in 1 .. n : ~tests[i][1]
  OBVIOUS
<1> HIDE DEF failed, first
<1> QED BY <1>1, <1>3, <1>4

\* lettuce_capability_check in terms of the grants, for any arguments.
LEMMA CheckMeaning ==
    ASSUME TableOK, NEW caller, caller # InvalidId, NEW handle \in HandleValues, NEW target,
           NEW operation, NEW resource, NEW permission, permission # {}
    PROVE  lettuce_capability_check(caller, handle, target, operation, permission, resource)
             <=> /\ handle \in Handles
                 /\ authority[handle].owner = caller
                 /\ authority[handle].target = target
                 /\ authority[handle].operation = operation
                 /\ authority[handle].resource = resource
                 /\ permission \subseteq authority[handle].permissions
<1>1. CASE handle \notin Handles
  BY <1>1, LiveIsHandle DEF lettuce_capability_check
<1>2. CASE handle \in Handles /\ ~Live(handle)
  BY <1>2 DEF lettuce_capability_check, authority, NoGrant
<1>3. CASE handle \in Handles /\ Live(handle)
  <2>1. authority[handle] = capability_table[SlotOf(handle)].grant
    BY <1>3 DEF authority
  <2>2. decode_handle(handle)
    BY <1>3, CapabilityAssumption DEF Handles, Slots, decode_handle, Generations
  <2> QED BY <1>3, <2>1, <2>2, Zenon DEF lettuce_capability_check
<1> QED BY <1>1, <1>2, <1>3

\* A grant that some caller holds names a valid operation and resource.
LEMMA HeldGrant ==
    ASSUME TableOK, NEW handle \in Handles, authority[handle].owner # InvalidId
    PROVE  authority[handle].operation # InvalidId /\ authority[handle].resource # InvalidId
<1>1. Live(handle)
  BY DEF authority, NoGrant
<1>2. capability_table[SlotOf(handle)].grant \in Grants
  BY <1>1, HandleParts DEF Live, TableOK, GrantWhileActive
<1>3. authority[handle] \in Grants
  BY <1>1, <1>2 DEF authority
<1> QED BY <1>3, CapabilityAssumption DEF Grants

\* Each validator accepts a request that fails none of its tests.
LEMMA SameLayerRule ==
    ASSUME NEW caller, NEW request
    PROVE  lettuce_same_layer_validate(caller, request) = "OK"
       <=> /\ Registered(caller) /\ lettuce_service_registry_is_active(caller)
           /\ Registered(request.target) /\ lettuce_service_registry_is_active(request.target)
           /\ Layer(caller) = Layer(request.target)
           /\ request.operation # 0 /\ request.resource # 0 /\ request.handle # <<0, 0>>
           /\ Authorized(caller, request, {"CALL"})
           /\ Mapped(request.target, request.operation)
<1> DEFINE t == <<
    <<~Registered(caller), "INVALID_SERVICE">>,
    <<~lettuce_service_registry_is_active(caller), "INACTIVE_SERVICE">>,
    <<~Registered(request.target), "INVALID_SERVICE">>,
    <<~lettuce_service_registry_is_active(request.target), "INACTIVE_SERVICE">>,
    <<Layer(caller) # Layer(request.target), "DIFFERENT_LAYER">>,
    <<request.operation = 0, "INVALID_OPERATION">>,
    <<request.resource = 0, "INVALID_RESOURCE">>,
    <<request.handle = <<0, 0>>, "CAPABILITY_DENIED">>,
    <<~Authorized(caller, request, {"CALL"}), "CAPABILITY_DENIED">>,
    <<~Mapped(request.target, request.operation), "INVALID_OPERATION">> >>
<1>1. DOMAIN t = 1 .. 10 /\ \A i \in 1 .. 10 : t[i][2] # "OK"
  OBVIOUS
<1>2. /\ t[1][1] <=> ~Registered(caller)
      /\ t[2][1] <=> ~lettuce_service_registry_is_active(caller)
      /\ t[3][1] <=> ~Registered(request.target)
      /\ t[4][1] <=> ~lettuce_service_registry_is_active(request.target)
      /\ t[5][1] <=> Layer(caller) # Layer(request.target)
      /\ t[6][1] <=> request.operation = 0
      /\ t[7][1] <=> request.resource = 0
      /\ t[8][1] <=> request.handle = <<0, 0>>
      /\ t[9][1] <=> ~Authorized(caller, request, {"CALL"})
      /\ t[10][1] <=> ~Mapped(request.target, request.operation)
  BY Zenon
<1>3. lettuce_same_layer_validate(caller, request) = FirstFailure(t)
  BY Zenon DEF lettuce_same_layer_validate
<1> HIDE DEF t
<1>4. (\A i \in 1 .. 10 : ~t[i][1])
        <=> ~(t[1][1] \/ t[2][1] \/ t[3][1] \/ t[4][1] \/ t[5][1]
             \/ t[6][1] \/ t[7][1] \/ t[8][1] \/ t[9][1] \/ t[10][1])
  OBVIOUS
<1>5. FirstFailure(t) = "OK" <=> \A i \in 1 .. 10 : ~t[i][1]
  BY <1>1, FirstFailureIsOK, Zenon
<1> QED BY <1>2, <1>3, <1>4, <1>5, Zenon

LEMMA CrossLayerRule ==
    ASSUME NEW caller, NEW request
    PROVE  lettuce_cross_layer_validate(caller, request) = "OK"
       <=> /\ Registered(caller) /\ lettuce_service_registry_is_active(caller)
           /\ Registered(request.target) /\ lettuce_service_registry_is_active(request.target)
           /\ Layer(caller) # Layer(request.target)
           /\ request.operation # 0 /\ request.resource # 0
           /\ Authorized(caller, request, {"CALL"})
           /\ HasEntry(request)
<1> DEFINE t == <<
    <<~Registered(caller), "INVALID_SERVICE">>,
    <<~lettuce_service_registry_is_active(caller), "INACTIVE_SERVICE">>,
    <<~Registered(request.target), "INVALID_SERVICE">>,
    <<~lettuce_service_registry_is_active(request.target), "INACTIVE_SERVICE">>,
    <<Layer(caller) = Layer(request.target), "INVALID_STATE">>,
    <<request.operation = 0, "INVALID_OPERATION">>,
    <<request.resource = 0, "INVALID_RESOURCE">>,
    <<~Authorized(caller, request, {"CALL"}), "CAPABILITY_DENIED">>,
    <<~HasEntry(request), "INVALID_TARGET_ENTRY">> >>
<1>1. DOMAIN t = 1 .. 9 /\ \A i \in 1 .. 9 : t[i][2] # "OK"
  OBVIOUS
<1>2. /\ t[1][1] <=> ~Registered(caller)
      /\ t[2][1] <=> ~lettuce_service_registry_is_active(caller)
      /\ t[3][1] <=> ~Registered(request.target)
      /\ t[4][1] <=> ~lettuce_service_registry_is_active(request.target)
      /\ t[5][1] <=> Layer(caller) = Layer(request.target)
      /\ t[6][1] <=> request.operation = 0
      /\ t[7][1] <=> request.resource = 0
      /\ t[8][1] <=> ~Authorized(caller, request, {"CALL"})
      /\ t[9][1] <=> ~HasEntry(request)
  BY Zenon
<1>3. lettuce_cross_layer_validate(caller, request) = FirstFailure(t)
  BY Zenon DEF lettuce_cross_layer_validate
<1> HIDE DEF t
<1>4. (\A i \in 1 .. 9 : ~t[i][1])
        <=> ~(t[1][1] \/ t[2][1] \/ t[3][1] \/ t[4][1] \/ t[5][1]
             \/ t[6][1] \/ t[7][1] \/ t[8][1] \/ t[9][1])
  OBVIOUS
<1>5. FirstFailure(t) = "OK" <=> \A i \in 1 .. 9 : ~t[i][1]
  BY <1>1, FirstFailureIsOK, Zenon
<1> QED BY <1>2, <1>3, <1>4, <1>5, Zenon

LEMMA ElevatorRule ==
    ASSUME NEW caller, NEW request
    PROVE  lettuce_elevator_policy(caller, request) = "OK"
       <=> /\ Registered(caller) /\ lettuce_service_registry_is_active(caller)
           /\ Registered(request.target) /\ lettuce_service_registry_is_active(request.target)
           /\ request.operation # 0 /\ request.resource # 0
           /\ Authorized(caller, request, {"CALL", "CRITICAL"})
           /\ HasEntry(request)
<1> DEFINE t == <<
    <<~Registered(caller) \/ ~Registered(request.target), "INVALID_SERVICE">>,
    <<\/ ~lettuce_service_registry_is_active(caller)
      \/ ~lettuce_service_registry_is_active(request.target), "INACTIVE_SERVICE">>,
    <<request.operation = 0, "INVALID_OPERATION">>,
    <<request.resource = 0, "INVALID_RESOURCE">>,
    <<~Authorized(caller, request, {"CALL", "CRITICAL"}), "CAPABILITY_DENIED">>,
    <<~HasEntry(request), "INVALID_TARGET_ENTRY">> >>
<1>1. DOMAIN t = 1 .. 6 /\ \A i \in 1 .. 6 : t[i][2] # "OK"
  OBVIOUS
<1>2. /\ t[1][1] <=> (~Registered(caller) \/ ~Registered(request.target))
      /\ t[2][1] <=> \/ ~lettuce_service_registry_is_active(caller)
                     \/ ~lettuce_service_registry_is_active(request.target)
      /\ t[3][1] <=> request.operation = 0
      /\ t[4][1] <=> request.resource = 0
      /\ t[5][1] <=> ~Authorized(caller, request, {"CALL", "CRITICAL"})
      /\ t[6][1] <=> ~HasEntry(request)
  BY Zenon
<1>3. lettuce_elevator_policy(caller, request) = FirstFailure(t)
  BY Zenon DEF lettuce_elevator_policy
<1> HIDE DEF t
<1>4. (\A i \in 1 .. 6 : ~t[i][1])
        <=> ~(t[1][1] \/ t[2][1] \/ t[3][1] \/ t[4][1] \/ t[5][1]
             \/ t[6][1])
  OBVIOUS
<1>5. FirstFailure(t) = "OK" <=> \A i \in 1 .. 6 : ~t[i][1]
  BY <1>1, FirstFailureIsOK, Zenon
<1> QED BY <1>2, <1>3, <1>4, <1>5, Zenon

\* The same-layer gate tests the entry again after its validation.
LEMMA GateStatusRule ==
    ASSUME NEW caller, NEW request
    PROVE  /\ GateStatus("same", caller, request) = "OK"
                <=> lettuce_same_layer_validate(caller, request) = "OK" /\ HasEntry(request)
           /\ GateStatus("cross", caller, request) = lettuce_cross_layer_validate(caller, request)
           /\ GateStatus("elevator", caller, request) = lettuce_elevator_policy(caller, request)
<1> DEFINE status == lettuce_same_layer_validate(caller, request)
           t == << <<status # "OK", status>>, <<~HasEntry(request), "INVALID_TARGET_ENTRY">> >>
<1>1. GateStatus("same", caller, request) = FirstFailure(t)
  BY Zenon DEF GateStatus
<1> HIDE DEF status
<1>2. DOMAIN t = 1 .. 2 /\ t[1][2] = status /\ t[2][2] # "OK"
  OBVIOUS
<1>3. (t[1][1] <=> status # "OK") /\ (t[2][1] <=> ~HasEntry(request))
  BY Zenon
<1> HIDE DEF t
<1>4. (\A i \in 1 .. 2 : ~t[i][1]) <=> ~(t[1][1] \/ t[2][1])
  OBVIOUS
<1>5. FirstFailure(t) = "OK" <=> \A i \in 1 .. 2 : ~t[i][1]
  <2>1. \A i \in 1 .. 2 : t[i][1] => t[i][2] # "OK"
    BY <1>2, <1>3
  <2> QED BY <1>2, <2>1, FirstFailureIsOK, Zenon
<1>6. GateStatus("same", caller, request) = "OK" <=> status = "OK" /\ HasEntry(request)
  BY <1>1, <1>3, <1>4, <1>5, Zenon
<1>7. /\ GateStatus("cross", caller, request) = lettuce_cross_layer_validate(caller, request)
      /\ GateStatus("elevator", caller, request) = lettuce_elevator_policy(caller, request)
  BY Zenon DEF GateStatus
<1> QED BY <1>6, <1>7, Zenon DEF status

\* What a gate's validator asks of the capability table, in terms of the grants.
LEMMA AuthorizedMeaning ==
    ASSUME TableOK, NEW caller, caller # 0, NEW request \in Requests,
           NEW permission, permission # {}
    PROVE  Authorized(caller, request, permission)
             <=> /\ request.handle \in Handles
                 /\ authority[request.handle].owner = caller
                 /\ authority[request.handle].target = request.target
                 /\ authority[request.handle].operation = request.operation
                 /\ authority[request.handle].resource = request.resource
                 /\ permission \subseteq authority[request.handle].permissions
<1>1. request.handle \in HandleValues
  BY DEF Requests
<1> QED BY <1>1, CheckMeaning DEF Authorized, InvalidId

\* same_layer/validate.c, cross_layer/call.c and elevator/policy.c decide by the
\* rule, as long as mapped operations are backed by their services.
LEMMA GateRule ==
    ASSUME TableOK, DispatchBacked, NEW gate \in Gates, NEW caller, NEW request \in Requests
    PROVE  GateStatus(gate, caller, request) = "OK" <=> MayEnter(gate, caller, request)
<1> DEFINE active == /\ lettuce_service_registry_is_active(caller)
                     /\ lettuce_service_registry_is_active(request.target)
           grant == authority[request.handle]
           held == /\ request.handle \in Handles
                   /\ grant.owner = caller
                   /\ grant.target = request.target
                   /\ grant.operation = request.operation
                   /\ grant.resource = request.resource
<1>1. /\ lettuce_service_registry_is_active(caller) => Registered(caller) /\ caller # 0
      /\ lettuce_service_registry_is_active(request.target) => Registered(request.target)
  BY Zenon DEF lettuce_service_registry_is_active, Registered
<1>2. active /\ held => request.operation # 0 /\ request.resource # 0
  BY <1>1, HeldGrant DEF InvalidId
<1>3. request.handle \in Handles => request.handle # <<0, 0>>
  BY DEF Handles, Generations
<1>4. HasEntry(request) <=> Mapped(request.target, request.operation)
  <2>1. request.target \in ServiceArgs /\ request.operation \in OperationArgs
    BY DEF Requests
  <2>2. Mapped(request.target, request.operation)
          => /\ request.target \in 0 .. ServiceTableSize - 1
             /\ request.operation \in 0 .. DispatchLimit - 1
             /\ service_table[request.target].operations[request.operation].active
    BY <2>1, RegistryAssumption
       DEF Mapped, ValidOperation, Registered, ServiceArgs, OperationArgs
  <2> QED BY <2>2, Zenon DEF HasEntry, DispatchBacked
<1>5. active => (Authorized(caller, request, {"CALL"}) <=> held /\ "CALL" \in grant.permissions)
  BY <1>1, AuthorizedMeaning
<1>6. active => (Authorized(caller, request, {"CALL", "CRITICAL"})
                   <=> held /\ "CALL" \in grant.permissions /\ "CRITICAL" \in grant.permissions)
  BY <1>1, AuthorizedMeaning
<1>7. MayEnter(gate, caller, request)
        <=> /\ active
            /\ gate = "same" => Layer(caller) = Layer(request.target)
            /\ gate = "cross" => Layer(caller) # Layer(request.target)
            /\ held /\ "CALL" \in grant.permissions
            /\ gate = "elevator" => "CRITICAL" \in grant.permissions
            /\ Mapped(request.target, request.operation)
  BY Zenon DEF MayEnter
<1>8. /\ active => Registered(caller) /\ Registered(request.target)
      /\ held => request.handle # <<0, 0>>
  BY <1>1, <1>3
<1> HIDE DEF held, grant
<1>9. CASE gate = "same"
  BY <1>9, <1>2, <1>4, <1>5, <1>7, <1>8, SameLayerRule, GateStatusRule
<1>10. CASE gate = "cross"
  BY <1>10, <1>2, <1>4, <1>5, <1>7, <1>8, CrossLayerRule, GateStatusRule
<1>11. CASE gate = "elevator"
  BY <1>11, <1>2, <1>4, <1>6, <1>7, <1>8, ElevatorRule, GateStatusRule
<1> QED BY <1>9, <1>10, <1>11 DEF Gates

-----------------------------------------------------------------------------
(***************************************************************************)
(* Stacks of callers, as CallGates and El0 keep them.                      *)
(***************************************************************************)
\* A sequence without its last element.
LEMMA Popped ==
    ASSUME NEW S, NEW s \in Seq(S), Len(s) # 0
    PROVE  /\ SubSeq(s, 1, Len(s) - 1) \in Seq(S)
           /\ Len(SubSeq(s, 1, Len(s) - 1)) = Len(s) - 1
           /\ \A i \in 1 .. Len(s) - 1 : SubSeq(s, 1, Len(s) - 1)[i] = s[i]
<1> DEFINE n == Len(s) - 1
           t == SubSeq(s, 1, n)
<1>1. n \in Nat
  OBVIOUS
<1>2. t \in Seq(S) /\ DOMAIN t = 1 .. n /\ \A i \in 1 .. n : t[i] = s[i]
  OBVIOUS
<1> HIDE DEF n, t
<1>3. Len(t) = n
  BY <1>1, <1>2
<1> QED BY <1>2, <1>3 DEF n, t
=============================================================================
