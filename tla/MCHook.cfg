\* One firmware family of each kind: 3.00-8.20, 8.30, 9.00, 9.60, 11.60 and
\* an unknown one; two requests, so that the second meets what the first left.
\* Two renderers, the second injected by a restarted controller.
SPECIFICATION SuiteSpec
CONSTANTS
    Families = {2080, 2096, 2304, 2400, 4448, 5000}
    MaxPolls = 2
    Renderers = {"r1", "r2"}
    MaxRestarts = 1
    PrefixRuns <- MCPrefixRuns
    Opcodes = {"push", "push8", "push32", "mov", "alu", "alu8", "alu32", "two_byte", "branch", "unknown"}
INVARIANTS
    TransactionInv
    HandshakeInv
    ReadyIsPatched
    RequestIsSound
PROPERTIES
    ImplementsPromise
    HandshakeEnds
