\* Three models, one of them at a trusted and at an untrusted peer; two or three proposers.
SPECIFICATION Spec
CONSTANTS
    here = here
    gate = gate
    near = near
    far = far
    Targets = {here, gate, near, far}
    Kind <- Kinds
    Model <- Models
    Shared = {near}
    Roles <- Declared
    Fanouts = {2, 4}
    Budgets = {0, 3}
    Tokens = 2
    Nobody = Nobody
INVARIANTS EgressKept WorkIsKept NoneOutlives
\* A job ends.
CHECK_DEADLOCK FALSE
