SPECIFICATION Spec
INVARIANT HandlerPerMethod
