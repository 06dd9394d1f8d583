\* Clique engine; two callers making four admin calls in all; a1 is in a
\* local wallet, but the first wallet is empty (no fallback bxmbase).
CONSTANTS
    c1 = c1  c2 = c2  a1 = a1  a2 = a2
    Zero = Zero  NoCaller = NoCaller
    Callers = {c1, c2}
    Addrs = {a1, a2}
    FirstAccount = Zero
    WalletAccounts = {a1}
    HasClique = TRUE
    HasIstanbul = FALSE
    ConfigBxmbase = Zero
    NodeKeyAddr = a2
    MaxCalls = 4
    SrvMaxPeers = 25
    LightServ = 50
    LightPeers = 20
SPECIFICATION Spec
INVARIANT TypeOK
PROPERTY CallsReturn
\* Behaviours end when the MaxCalls calls have returned.
CHECK_DEADLOCK FALSE
