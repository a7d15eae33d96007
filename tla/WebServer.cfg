CONSTANTS
    a = a
    b = b
    Clients = {a, b}
    Rude = {b}
    Flaky = {b}
    Misread = {b}
    Units = 2
    NoClient = NoClient
    Limits = {3, 9}
SPECIFICATION Spec
INVARIANTS
    PatientNotDropped
    DescriptorsAccounted
PROPERTIES
    DownForACause
    PatientAnswered
    ImplementsService
CHECK_DEADLOCK FALSE
