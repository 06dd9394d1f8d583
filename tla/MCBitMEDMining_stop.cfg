\* Istanbul engine, two callers: StartMining returns before its
\* `go s.miner.Start(eb)` has run, so a StopMining that follows can return
\* before the miner starts.
CONSTANTS
    c1 = c1  c2 = c2  a1 = a1  a2 = a2
    Zero = Zero  NoCaller = NoCaller
    Callers = {c1, c2}
    Addrs = {a1, a2}
    FirstAccount = a1
    WalletAccounts = {a1}
    HasClique = FALSE
    HasIstanbul = TRUE
    ConfigBxmbase = Zero
    NodeKeyAddr = a2
    MaxCalls = 4
    SrvMaxPeers = 25
    LightServ = 50
    LightPeers = 20
SPECIFICATION Spec
INVARIANT StopIsFinal
\* Behaviours end when the MaxCalls calls have returned.
CHECK_DEADLOCK FALSE
