SPECIFICATION Instances
CONSTANTS
    Run = {r1}
    Agent = {a1, a2}
    Thread = {t1, t2}
    None = None
SYMMETRY Symmetry
INVARIANTS TypeOK PausedDeviceIdle BindingInv
PROPERTIES NeverResurrected ExecutorStable ImplementsContract
