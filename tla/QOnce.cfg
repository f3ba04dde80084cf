SPECIFICATION OnceSpec
CONSTANT Callers = {t1, t2, t3}
INVARIANTS AtMostOnce ReturnAfterCallback NoForgottenWaiter
PROPERTY EveryCallReturns
