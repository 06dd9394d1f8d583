\* Istanbul engine: SetBxmbase refuses the address and returns at line 338
\* without unlocking; a later StartMining waits for the read lock forever.
CONSTANTS
    c1 = c1  c2 = c2  a1 = a1  a2 = a2
    Zero = Zero  NoCaller = NoCaller
    Callers = {c1, c2}
    Addrs = {a1, a2}
    FirstAccount = a1
    WalletAccounts = {a1}
    HasClique = FALSE
    HasIstanbul = TRUE
    ConfigBxmbase = Zero
    NodeKeyAddr = a2
    MaxCalls = 4
    SrvMaxPeers = 25
    LightServ = 50
    LightPeers = 20
SPECIFICATION Spec
PROPERTY CallsReturn
\* Behaviours also end when the MaxCalls calls have returned.
CHECK_DEADLOCK FALSE
