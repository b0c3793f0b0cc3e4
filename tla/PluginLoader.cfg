SPECIFICATION Spec
CONSTANTS
    a = a
    b = b
    config = config
    dpi = dpi
    NoSub = NoSub
    Names <- MCNames
    Dlls <- MCDlls
    Meta <- MCMeta
    Events <- MCEvents
    EventsOf <- MCEventsOf
    MaxSubscriptions = 3
    MaxPlugins = 2
    MaxFaults = 2
INVARIANTS
    TypeOK
    CallbacksAreMapped
    CountExact
PROPERTIES
    LifecycleSpec
