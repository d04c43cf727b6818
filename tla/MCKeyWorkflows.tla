--------------------------- MODULE MCKeyWorkflows ---------------------------
\* One old key of every suite, some behind passwords that are refused today.
EXTENDS KeyWorkflows

MCOld(suite, kem, format, password) ==
    [suite |-> suite, kem |-> kem, format |-> format, password |-> password]

MCOldKeys == {MCOld("ML-KEM-768+X25519", "ML-KEM-768", 2, "weak"),
              MCOld("ML-KEM-768+X25519", "Kyber768", 3, "strong"),
              MCOld("ML-KEM-768+X25519-v2", "ML-KEM-768", 3, "strong"),
              MCOld("Kyber768", "Kyber768", 2, "long")}
=============================================================================
