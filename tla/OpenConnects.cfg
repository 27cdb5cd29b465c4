CONSTANTS
    Builds = 2
    Ports = {8786}
    Securities <- FacilitySecurities
    Layouts = {"joined"}
    Tries = 1

SPECIFICATION Spec

CHECK_DEADLOCK FALSE

INVARIANT
    OpenConnects
