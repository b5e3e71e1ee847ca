----------------------------- MODULE Algorithms -----------------------------
(***************************************************************************)
(* The thirty composite algorithms and what each is made of.               *)
(*                                                                         *)
(* For signatures the same knowledge is written down twice: generation     *)
(* goes through three chains of comparisons in composite_sig_key.c, and    *)
(* everything else (codecs, signing, verification) through                 *)
(* composite_alg_table further down in that file.  The KEMs have one table *)
(* (composite_kem_info.c).  A name here is the prefix of the macros of     *)
(* composite_provider.h, which give it a short name and an OID.            *)
(***************************************************************************)
EXTENDS Integers, SequencesExt

CONSTANT NULL \* no such algorithm

ASSUME AlgorithmsAssumption ==
    NULL \notin {"P-256", "P-384", "P-521", "BRAINPOOL-256", "BRAINPOOL-384"}

\* In the order of their OIDs, 1.3.6.1.5.5.7.6.37 and following.
SigOrder == <<
    "MLDSA44_RSA2048_PSS", "MLDSA44_RSA2048_PKCS15", "MLDSA44_ED25519",
    "MLDSA44_P256", "MLDSA65_RSA3072_PSS", "MLDSA65_RSA3072_PKCS15",
    "MLDSA65_RSA4096_PSS", "MLDSA65_RSA4096_PKCS15", "MLDSA65_P256",
    "MLDSA65_P384", "MLDSA65_BRAINPOOLP256", "MLDSA65_ED25519",
    "MLDSA87_P384", "MLDSA87_BRAINPOOLP384", "MLDSA87_ED448",
    "MLDSA87_RSA3072_PSS", "MLDSA87_RSA4096_PSS", "MLDSA87_P521">>
KemOrder == <<
    "MLKEM768_RSA2048", "MLKEM768_RSA3072", "MLKEM768_RSA4096",
    "MLKEM768_X25519", "MLKEM768_P256", "MLKEM768_P384",
    "MLKEM768_BRAINPOOLP256", "MLKEM1024_RSA3072", "MLKEM1024_P384",
    "MLKEM1024_BRAINPOOLP384", "MLKEM1024_X448", "MLKEM1024_P521">>

SigNames == ToSet(SigOrder)
KemNames == ToSet(KemOrder)
Names == SigNames \union KemNames

\* The last arc of the OID registered for a name.
Oid(n) ==
    LET order == SigOrder \o KemOrder
    IN  36 + CHOOSE i \in 1..Len(order) : order[i] = n

-----------------------------------------------------------------------------
(* What generation knows of a signature algorithm.                         *)

composite_algorithm_get_mldsa_name(n) ==
    CASE n \in {"MLDSA44_RSA2048_PSS", "MLDSA44_RSA2048_PKCS15",
                "MLDSA44_ED25519", "MLDSA44_P256"} -> "ML-DSA-44"
      [] n \in {"MLDSA65_ED25519", "MLDSA65_RSA3072_PSS",
                "MLDSA65_RSA3072_PKCS15", "MLDSA65_RSA4096_PSS",
                "MLDSA65_RSA4096_PKCS15", "MLDSA65_P256", "MLDSA65_P384",
                "MLDSA65_BRAINPOOLP256"} -> "ML-DSA-65"
      [] n \in {"MLDSA87_RSA3072_PSS", "MLDSA87_RSA4096_PSS", "MLDSA87_ED448",
                "MLDSA87_P384", "MLDSA87_P521",
                "MLDSA87_BRAINPOOLP384"} -> "ML-DSA-87"
      [] OTHER -> NULL

composite_algorithm_get_trad_name(n) ==
    CASE n \in {"MLDSA44_RSA2048_PSS", "MLDSA65_RSA3072_PSS",
                "MLDSA65_RSA4096_PSS", "MLDSA87_RSA3072_PSS",
                "MLDSA87_RSA4096_PSS", "MLDSA44_RSA2048_PKCS15",
                "MLDSA65_RSA3072_PKCS15", "MLDSA65_RSA4096_PKCS15"} -> "RSA"
      [] n \in {"MLDSA44_ED25519", "MLDSA65_ED25519"} -> "ED25519"
      [] n = "MLDSA87_ED448" -> "ED448"
      [] n \in {"MLDSA44_P256", "MLDSA65_P256"} -> "P-256"
      [] n \in {"MLDSA65_P384", "MLDSA87_P384"} -> "P-384"
      [] n = "MLDSA87_P521" -> "P-521"
      [] n = "MLDSA65_BRAINPOOLP256" -> "BRAINPOOL-256"
      [] n = "MLDSA87_BRAINPOOLP384" -> "BRAINPOOL-384"
      [] OTHER -> NULL

\* The numbers that OpenSSL gives the curves.
NID_X9_62_prime256v1 == 415
NID_secp384r1 == 715
NID_secp521r1 == 716
NID_brainpoolP256r1 == 927
NID_brainpoolP384r1 == 931

\* Variant: ML-DSA-87 with RSA-3072 is grouped with the 4096-bit algorithms.
get_trad_param_grouped(n) ==
    CASE n \in {"MLDSA44_RSA2048_PSS", "MLDSA44_RSA2048_PKCS15"} -> 2048
      [] n \in {"MLDSA65_RSA3072_PSS", "MLDSA65_RSA3072_PKCS15"} -> 3072
      [] OTHER -> 4096

composite_algorithm_get_trad_param(n) ==
    CASE n \in {"MLDSA44_RSA2048_PSS", "MLDSA44_RSA2048_PKCS15"} -> 2048
      [] n \in {"MLDSA65_RSA3072_PSS", "MLDSA65_RSA3072_PKCS15",
                "MLDSA87_RSA3072_PSS"} -> 3072
      [] n \in {"MLDSA65_RSA4096_PSS", "MLDSA65_RSA4096_PKCS15",
                "MLDSA87_RSA4096_PSS"} -> 4096
      [] n \in {"MLDSA44_P256", "MLDSA65_P256"} -> NID_X9_62_prime256v1
      [] n \in {"MLDSA65_P384", "MLDSA87_P384"} -> NID_secp384r1
      [] n = "MLDSA87_P521" -> NID_secp521r1
      [] n = "MLDSA65_BRAINPOOLP256" -> NID_brainpoolP256r1
      [] n = "MLDSA87_BRAINPOOLP384" -> NID_brainpoolP384r1
      [] n \in {"MLDSA44_ED25519", "MLDSA65_ED25519", "MLDSA87_ED448"} -> -1
      [] OTHER -> 0

\* Variant: the two brainpool curves are confused.
classic_id_swapped(trad) ==
    CASE trad = "BRAINPOOL-256" -> NID_brainpoolP384r1
      [] trad = "BRAINPOOL-384" -> NID_brainpoolP256r1
      [] trad = "P-256" -> NID_X9_62_prime256v1
      [] trad = "P-384" -> NID_secp384r1
      [] trad = "P-521" -> NID_secp521r1

\* The curve that classic_id_from_algorithm finds under a name.
classic_id_from_algorithm(trad) ==
    CASE trad = "P-256" -> NID_X9_62_prime256v1
      [] trad = "P-384" -> NID_secp384r1
      [] trad = "P-521" -> NID_secp521r1
      [] trad = "BRAINPOOL-256" -> NID_brainpoolP256r1
      [] trad = "BRAINPOOL-384" -> NID_brainpoolP384r1

\* A traditional key: its type and its size or its curve; -1 or 0 is neither.
Trad(type, param) == [type |-> type, param |-> param]
Ed(type) == Trad(type, -1)

\* An RSA key takes its size from the parameter, but an EC key takes its curve
\* from the name: that the parameter gives one too is only asked for.
classic_key_generate(trad, param) ==
    CASE trad \in {"ED25519", "ED448"} -> Ed(trad)
      [] trad = "RSA" /\ param \in {2048, 3072, 4096} -> Trad("RSA", param)
      [] trad \notin {"ED25519", "ED448", "RSA", NULL} /\ param > 0 ->
            Trad("EC", classic_id_from_algorithm(trad))
      [] OTHER -> NULL

-----------------------------------------------------------------------------
(* What everything else knows.                                             *)

Row(name, mldsa, trad) == [name |-> name, pq |-> mldsa, trad |-> trad]

composite_alg_table == {
    Row("MLDSA44_RSA2048_PSS",    "ML-DSA-44", Trad("RSA", 2048)),
    Row("MLDSA44_RSA2048_PKCS15", "ML-DSA-44", Trad("RSA", 2048)),
    Row("MLDSA44_ED25519",        "ML-DSA-44", Ed("ED25519")),
    Row("MLDSA44_P256",           "ML-DSA-44", Trad("EC", NID_X9_62_prime256v1)),
    Row("MLDSA65_RSA3072_PSS",    "ML-DSA-65", Trad("RSA", 3072)),
    Row("MLDSA65_RSA3072_PKCS15", "ML-DSA-65", Trad("RSA", 3072)),
    Row("MLDSA65_RSA4096_PSS",    "ML-DSA-65", Trad("RSA", 4096)),
    Row("MLDSA65_RSA4096_PKCS15", "ML-DSA-65", Trad("RSA", 4096)),
    Row("MLDSA65_P256",           "ML-DSA-65", Trad("EC", NID_X9_62_prime256v1)),
    Row("MLDSA65_P384",           "ML-DSA-65", Trad("EC", NID_secp384r1)),
    Row("MLDSA65_BRAINPOOLP256",  "ML-DSA-65", Trad("EC", NID_brainpoolP256r1)),
    Row("MLDSA65_ED25519",        "ML-DSA-65", Ed("ED25519")),
    Row("MLDSA87_P384",           "ML-DSA-87", Trad("EC", NID_secp384r1)),
    Row("MLDSA87_BRAINPOOLP384",  "ML-DSA-87", Trad("EC", NID_brainpoolP384r1)),
    Row("MLDSA87_ED448",          "ML-DSA-87", Ed("ED448")),
    Row("MLDSA87_RSA3072_PSS",    "ML-DSA-87", Trad("RSA", 3072)),
    Row("MLDSA87_RSA4096_PSS",    "ML-DSA-87", Trad("RSA", 4096)),
    Row("MLDSA87_P521",           "ML-DSA-87", Trad("EC", NID_secp521r1))}

kem_algorithms == {
    Row("MLKEM768_RSA2048",        "ML-KEM-768",  Trad("RSA", 2048)),
    Row("MLKEM768_RSA3072",        "ML-KEM-768",  Trad("RSA", 3072)),
    Row("MLKEM768_RSA4096",        "ML-KEM-768",  Trad("RSA", 4096)),
    Row("MLKEM768_X25519",         "ML-KEM-768",  Trad("X25519", 0)),
    Row("MLKEM768_P256",           "ML-KEM-768",  Trad("EC", NID_X9_62_prime256v1)),
    Row("MLKEM768_P384",           "ML-KEM-768",  Trad("EC", NID_secp384r1)),
    Row("MLKEM768_BRAINPOOLP256",  "ML-KEM-768",  Trad("EC", NID_brainpoolP256r1)),
    Row("MLKEM1024_RSA3072",       "ML-KEM-1024", Trad("RSA", 3072)),
    Row("MLKEM1024_P384",          "ML-KEM-1024", Trad("EC", NID_secp384r1)),
    Row("MLKEM1024_BRAINPOOLP384", "ML-KEM-1024", Trad("EC", NID_brainpoolP384r1)),
    Row("MLKEM1024_X448",          "ML-KEM-1024", Trad("X448", 0)),
    Row("MLKEM1024_P521",          "ML-KEM-1024", Trad("EC", NID_secp521r1))}

\* composite_alg_info_find and composite_kem_alg_info_find
alg_info_find(n) == CHOOSE row \in composite_alg_table \union kem_algorithms : row.name = n

PqAlgs == {row.pq : row \in composite_alg_table \union kem_algorithms}

\* The components that generation under a name makes.
Generated(n) ==
    IF n \in KemNames
    THEN [pq |-> alg_info_find(n).pq, trad |-> alg_info_find(n).trad]
    ELSE [pq |-> composite_algorithm_get_mldsa_name(n),
          trad |-> classic_key_generate(composite_algorithm_get_trad_name(n),
                                        composite_algorithm_get_trad_param(n))]

=============================================================================
