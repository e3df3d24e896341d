--------------------------- MODULE MCCertRequest ---------------------------
(* Instances of CertRequest for TLC. *)
EXTENDS CertRequest

CONSTANTS k1, k2, k3, r1, r2, o1, o2

\* With the first key all goes well, with the second the CSR fails, with the
\* third there is no derived key.
MCCrypto == [k \in Keys |-> IF k = k1 THEN "csr" ELSE IF k = k2 THEN "key" ELSE "none"]
=============================================================================
