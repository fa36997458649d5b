------------------------------ MODULE Validate ------------------------------
(***************************************************************************)
(* The authorization half of the three call paths: same-layer              *)
(* (ipc/same_layer/validate.c), cross-layer (ipc/cross_layer/call.c) and   *)
(* Elevator (ipc/elevator/policy.c).  Each reads the registry, the         *)
(* capability table and the kernel's current service id, and answers a     *)
(* status; the order of the tests decides which status a bad request gets. *)
(***************************************************************************)
EXTENDS Capability, Registry

ASSUME CallPermissionAssumption == {"CALL", "CRITICAL"} \subseteq PermissionBits

Requests == [target : ServiceArgs, operation : OperationArgs,
             resource : ResourceIds, handle : HandleValues]

Gates == {"same", "cross", "elevator"}

\* The status of the first test that fails, tests being <<failed, status>>.
FirstFailure(tests) ==
    LET failed == {i \in DOMAIN tests : tests[i][1]}
    IN  IF failed = {} THEN "OK"
        ELSE tests[CHOOSE i \in failed : \A j \in failed : i <= j][2]

Layer(service_id) == IF Registered(service_id) THEN Descriptor(service_id).layer ELSE 0

Authorized(caller, request, permission) ==
    lettuce_capability_check(caller, request.handle, request.target,
                             request.operation, permission, request.resource)

lettuce_same_layer_validate(caller, request) == FirstFailure(<<
    <<~Registered(caller), "INVALID_SERVICE">>,
    <<~lettuce_service_registry_is_active(caller), "INACTIVE_SERVICE">>,
    <<~Registered(request.target), "INVALID_SERVICE">>,
    <<~lettuce_service_registry_is_active(request.target), "INACTIVE_SERVICE">>,
    <<Layer(caller) # Layer(request.target), "DIFFERENT_LAYER">>,
    <<request.operation = 0, "INVALID_OPERATION">>,
    <<request.resource = 0, "INVALID_RESOURCE">>,
    <<request.handle = <<0, 0>>, "CAPABILITY_DENIED">>,
    <<~Authorized(caller, request, {"CALL"}), "CAPABILITY_DENIED">>,
    <<~Mapped(request.target, request.operation), "INVALID_OPERATION">> >>)

\* lettuce_dispatch_lookup found an entry and its function is set.
HasEntry(request) ==
    /\ Mapped(request.target, request.operation)
    /\ service_table[request.target].operations[request.operation].entry # NULL

lettuce_cross_layer_validate(caller, request) == FirstFailure(<<
    <<~Registered(caller), "INVALID_SERVICE">>,
    <<~lettuce_service_registry_is_active(caller), "INACTIVE_SERVICE">>,
    <<~Registered(request.target), "INVALID_SERVICE">>,
    <<~lettuce_service_registry_is_active(request.target), "INACTIVE_SERVICE">>,
    <<Layer(caller) = Layer(request.target), "INVALID_STATE">>,
    <<request.operation = 0, "INVALID_OPERATION">>,
    <<request.resource = 0, "INVALID_RESOURCE">>,
    <<~Authorized(caller, request, {"CALL"}), "CAPABILITY_DENIED">>,
    <<~HasEntry(request), "INVALID_TARGET_ENTRY">> >>)

\* mutant: a CALL capability opens the Elevator
PolicyWithoutCritical(caller, request) == FirstFailure(<<
    <<~Registered(caller) \/ ~Registered(request.target), "INVALID_SERVICE">>,
    <<~Authorized(caller, request, {"CALL"}), "CAPABILITY_DENIED">>,
    <<~HasEntry(request), "INVALID_TARGET_ENTRY">> >>)
lettuce_elevator_policy(caller, request) == FirstFailure(<<
    <<~Registered(caller) \/ ~Registered(request.target), "INVALID_SERVICE">>,
    <<\/ ~lettuce_service_registry_is_active(caller)
      \/ ~lettuce_service_registry_is_active(request.target), "INACTIVE_SERVICE">>,
    <<request.operation = 0, "INVALID_OPERATION">>,
    <<request.resource = 0, "INVALID_RESOURCE">>,
    <<~Authorized(caller, request, {"CALL", "CRITICAL"}), "CAPABILITY_DENIED">>,
    <<~HasEntry(request), "INVALID_TARGET_ENTRY">> >>)

\* What a gate decides before it touches the execution context.  Only the
\* same-layer path looks at the function pointer after its validation.
GateStatus(gate, caller, request) ==
    CASE gate = "same" ->
           FirstFailure(<<
             <<lettuce_same_layer_validate(caller, request) # "OK",
               lettuce_same_layer_validate(caller, request)>>,
             <<~HasEntry(request), "INVALID_TARGET_ENTRY">> >>)
      [] gate = "cross" -> lettuce_cross_layer_validate(caller, request)
      [] gate = "elevator" -> lettuce_elevator_policy(caller, request)

\* The rule for a call, in terms of Authority's grants instead of table slots.
MayEnter(gate, caller, request) ==
    /\ lettuce_service_registry_is_active(caller)
    /\ lettuce_service_registry_is_active(request.target)
    /\ gate = "same" => Layer(caller) = Layer(request.target)
    /\ gate = "cross" => Layer(caller) # Layer(request.target)
    /\ request.handle \in Handles
    /\ LET grant == authority[request.handle] IN
         /\ grant.owner = caller
         /\ grant.target = request.target
         /\ grant.operation = request.operation
         /\ grant.resource = request.resource
         /\ "CALL" \in grant.permissions
         /\ gate = "elevator" => "CRITICAL" \in grant.permissions
    /\ Mapped(request.target, request.operation)
=============================================================================
