# Verification of the composite provider

`composite-provider` is an OpenSSL 3.5 provider. It offers 18 signature
algorithms that pair ML-DSA with RSA, ECDSA or EdDSA, and 12 key encapsulation
mechanisms that pair ML-KEM with RSA-OAEP, ECDH, X25519 or X448. This directory
holds TLA+ models of it, the TLC configurations that check them and proofs for
TLAPS. `PROJECT.json` maps each definition to the source lines it models.
Paths below are relative to the provider's `src/` directory.

1. [The system](#1-the-system): components, state, interactions, hazards
2. [The modules](#2-the-modules): what models what, and how
3. [The runs](#3-the-runs): what TLC checks, with which bounds
4. [The proofs](#4-the-proofs)
5. [Disagreements found](#5-disagreements-found)
6. [What is not modelled](#6-what-is-not-modelled)
7. [Plan](#7-plan)

To run: `tlc -config MCKemKey.cfg MCKemKey`, and so on for the table in
section 3; `tlapm KemKeyProofs.tla`, and so on for the eight modules whose names
end in `Proofs`.

## 1. The system

The provider is a library without threads of its own. libcrypto calls it through
dispatch tables, on whatever threads the application has, and it calls back into
libcrypto for the component algorithms. What it keeps between calls are keys,
operation contexts and a few process-wide tables.

| Component | State | Operations | What makes it correct |
|---|---|---|---|
| KEM keys: `kem/composite_kem_key.c`, `kem/composite_kem_keymgmt.c` | four slots holding `EVP_PKEY` references, `has_private` | new, free, gen, generate, import, export, load, has, match | reference counts exact whatever fails; an operation happens as a whole or not at all; `has_private` is true of the components; halves stay with the halves they came with |
| Signature keys: `signature/composite_sig_key.c`, `composite_keys.c` | four slots, each owning its object, `has_private` | new, free, gen, generate, import, decode, dup, export | the same, without shared objects; a key that claims private material can sign |
| Signature operations: `signature/composite_sig.c` | per context: borrowed key, context string, message so far | sign and verify, one-shot and streaming, set parameters | accepted if and only if one who asked for the same algorithm, key, context string and message got it, as a whole; a stream is what was fed |
| KEM operations: `kem/composite_kem.c`, combiner in `composite_kem_info.c` | per context: algorithm, borrowed key | init, encapsulate, decapsulate | both ends agree; nobody else gets the secret from anything else; a failing half is reported, not absorbed |
| Decoders: `signature/composite_decoder.c`, `kem/composite_kem_decoder.c` | the key under construction and who owns it | one decode function per algorithm and structure | a file is decoded as what it says, in whatever order the decoders run; no key leaks or is freed while somebody has it; a foreign file ends nobody's search |
| Provider load: `common/provider.c`, and the OID registrations in `signature/composite_encoder.c` and `kem/composite_kem_info.c` | OID database, merged codec lists, a once flag; all of the process | entry point, query, teardown | a loaded instance finds every OID; who creates one declares it; a list is never seen half merged, overrun or without terminator |
| Encoders: `signature/composite_encoder.c`, `kem/composite_kem_encoder.c` | none of their own; blocks on the heap during a call, and a switch in the `EVP_PKEY` of the key | encode to DER or PEM | all or nothing is written, and the return value says which; nothing leaks on any error path; no EC private key carries its public key |
| Wire formats: `signature/composite_sig_encoding.c`, `kem/composite_kem_encoding.c` | none | split and join two serializations | splitting undoes joining; a wrong length is refused; what is read back is what was written |
| Tables: `composite_alg_table`, `kem_algorithms`, `common/composite_provider.h` | constant | look up | generation, which has comparisons of its own, agrees with the table |
| Dispatch: `mldsa_composite.c`, `mlkem_composite.c`, `common/composite_keymgmt.*` | constant | none | none to check by model |

### How they interact

- A **decoder** allocates a key, has the wire format split the blob into
  components, and offers the key to the framework by reference. The framework
  calls `load` in key management to take it.
- An **operation context** borrows a key and reaches its components through the
  accessors, which answer with the public slot where the private one is empty.
- **import** and **export** exchange `pub` and `priv` octet strings; what one
  key exports another may import.
- An **encoder** has the wire format join the components it gets from the key, and
  writes them under the OID of the key's name; a decoder starts from that OID.
- The **OID database** is filled at load time and read by the codecs, by name.
- The **merged codec lists** are filled once per process by the first query.

### What is hard

- *Partial failure.* Every key has two components, built by calls that may fail
  one after the other, with references taken and given back in between.
- *Fallback.* Where private material lives depends on how a key came about;
  `has_private` is kept beside the slots, not computed from them.
- *Order.* The framework, not the provider, orders the decoders. The caller
  orders inits, parameter settings, updates and final calls.
- *Concurrency.* Library contexts on several threads load the provider at once,
  register in one database and share two arrays. Threads that encode one key
  share it.
- *Composition of two algorithms.* Halves of different signatures or
  ciphertexts may arrive together; two verdicts, or two secrets, must be combined so that neither half decides.
- *Two allocators.* The KEM wire format returns buffers of `malloc`, everything
  around it uses `OPENSSL_malloc`.
- *Widths and limits.* `int` lengths in `BIO_write`, a 255 octet context string,
  128 places in the merged arrays.

`PROJECT.json` lists 39 hazards with their lines, each with the properties that
cover it or the reason why none does.

## 2. The modules

| Module | Models | Extends or instantiates |
|---|---|---|
| `CompositeKeyStore` | what a key store promises: each operation atomic, whole composites only | - |
| `KemKey` | KEM keys and their components | instantiates `CompositeKeyStore` |
| `SignatureKeyStore` | the same promise for signature keys, which can also be duplicated and are decoded | extends `CompositeKeyStore` |
| `SigKey` | signature keys and their components | instantiates `SignatureKeyStore` |
| `DecoderChain` | all decoders under the framework's search | - |
| `SigOps` | signature contexts | - |
| `KemOps` | KEM contexts and the combiner | - |
| `ProviderLoad` | entry point, registrations, codec lists | - |
| `Algorithms` | the thirty algorithms: names, OIDs, components, and what generation makes of a name | - |
| `WireFormat` | joining and splitting two halves | - |
| `KeyFile` | encoding a key and reading it back | extends `Algorithms` and `WireFormat` |
| `KemKeyProofs`, `SigKeyProofs`, `DecoderChainProofs`, `SigOpsProofs`, `KemOpsProofs`, `WireFormatProofs`, `ProviderLoadProofs`, `KeyFileProofs` | proofs | the module they are named after; `KeyFileProofs` uses `WireFormatProofs` |
| `MC...` | the small instances for TLC | the module they are named after |

Definitions named "Variant: ..." in their comment are plausible wrong versions of
the definition below them. No specification uses them. Each checked property is
violated when one of them takes its sibling's place, which shows that the
property depends on that code.

### KemKey

`slots[k]` is a `COMPOSITE_KEM_KEY`; `refs[o]` and `content[o]` are the reference
count and the content of an `EVP_PKEY`. A private-capable component sits in both
slots of its half with one reference each. `op[k]` is where a call on `k` is:
generation has the steps build ML-KEM, build traditional, `up_ref`, `up_ref`;
an import has two builds. `Fail` may happen at each, and gives up what the error
path of that point gives up (`ErrFrees`). The last step of an operation installs
both components and releases the old ones at once, as the code does.
`kk_replace_components` does not look at its two `up_ref`s. `ImportUnnoticed` is the
import that misses one; it notes the component in `missed`, `Ownership` is claimed of
the states where that is empty, and the run does not follow the key any further: what
happens to a component that a slot points to and nobody holds is undefined.
`wire` is the last export, and an import reads it or parameters made elsewhere
(`Foreign`). Calls on different keys interleave; calls on one key do not,
because libcrypto does not allow an unsynchronised write to a key in use.
`minted` is a history variable: the pairs that a generation here put together.

`composite_kemkey_generate` is an exported function that tests call directly
(`tests/test_keygen_kem.c:52`), and it replaces what the key holds, so
`RegenBegin` takes any idle key.
`kem_import` with nothing to import fails and changes nothing, so it is not a
step. `has_private` decides whether an export contains the private half; a key
that has none exports the public half only.

### CompositeKeyStore and the refinement

A handle holds nothing or a pair of composites `[pub, priv]`; generation, import,
export and free are single steps. `KemKey!Held` maps a key to its handle through
the accessors: the public composite its slots show and, if `has_private`, the
same composite as private half. The intermediate states of a call stutter, and
so does every failure, except that a failed keymgmt `gen` also releases the
handle it had allocated.

`SignatureKeyStore` promises less: a handle of it may come to hold part of what an
import or a duplication was offered, as a signature key may. Which halves a key may
claim is what `PrivateIsUsable` says.

### SigKey

Slots own their objects, so `pkeys` counts allocations and `slots` says what each
object is. Calls on different keys share nothing, so one call at a time is
enough. Generation fills only the public slots, with private-capable objects
(`composite_signkey_set0_components`), and only the keymgmt entry sets
`has_private`; a private decode fills the private slots; `composite_pki_decode`
then copies them into the public ones (`Derive`, which may fail). Import and
decode act on a key libcrypto has just allocated, which is freed when they fail.
`Foreign` has parameters whose public and private half are of one composite and
such whose halves disagree: an import takes both, and the two halves of the key
are then two composites, each whole.
`Dup` takes the selections given by `DupSelections`.

`SigKey!Held` maps a key to a handle of `SignatureKeyStore`: nothing while a call is
at work on it, and otherwise the public composite and, where the key says that it
has private material and signing finds some, the composite it signs with. So a call
is one step of the store, whichever components it builds in between, and a call
that fails shows nothing or gives the handle back. A duplicate holds some of what
the original holds; it may even hold the private half though only the public one
was selected, since the public slots of a generated key have private-capable objects
and `EVP_PKEY_dup` copies them whole.

### DecoderChain

One search: a document, a selection, and the decoders of all algorithms, tried
in any order, each at most once. A decode function reads, parses, allocates,
imports and hands over; it answers 1 for "not mine" and 0 for "stop". The two
families differ in what they check (`Parses`): the KEM decoders compare the OID
and refuse parameters; the signature decoder for `PrivateKeyInfo` compares the
OID; the one for `SubjectPublicKeyInfo` compares nothing. Where the code turns
a failure into either answer, `ReadFails` chooses. `Handover` is `object_cb`, with
all that may come of it: the framework takes the key through `load` and keeps it,
refuses it, or takes it, fails to wrap it and frees it. `StillOurs` is the decoder's test
of the return value. `Released` is what holds of all three, for the passing run;
`OneOwner`, which the third one breaks, has the run `decoder_load` (section 5).

### SigOps

A context keeps its key, its context string and its message across inits, as the
code does. Primitives are symbolic: a component signature is a record of key
pair, label and `M'`, and equal records are equal signatures. `Arriving` is what
the channel may deliver: the ML-DSA half of any signature next to the
traditional half of any. `ToInt` and `Written` model the narrowing of a length
to `int` and what `BIO_write` does with it. Verdicts are not
measured against the state of the contexts but against what the callers did: `told` is
the context string a caller has set (none after a setting that failed), `fed` the data
its updates took, and `made` pairs what was signed with what was asked for. `wrong`
collects the wrong verdicts: a signature accepted though nobody who asked for the same
got it, or rejected though somebody did and nothing failed.

### KemOps

A ciphertext is two symbolic halves; the channel recombines them, re-encodes a
point (`form`) and changes the length by one octet. `MlkemSecret` models implicit
rejection, `TradSecret` and `TradDecapsulates` the two kinds of traditional
half. The combiner keeps its inputs apart (`Combine`): that the hash is
injective on them is the assumption. `Accepts` is what the init calls check,
including that a key is on the algorithm's curve, which a private import does
not check (`tests/test_kem_negative.c:490`). An encapsulation whose combiner
fails may leave its ciphertext in the caller's buffer (`left`), and the channel
uses those too. `wrong` again collects what may not
happen. libcrypto makes a new provider context for each init, so an init
replaces the context, and a failed one leaves none.

### Algorithms and WireFormat

Pure definitions. `Algorithms` writes down both things the code knows of a
signature algorithm: the comparisons that generation goes through
(`composite_algorithm_get_mldsa_name`, `..._trad_name`, `..._trad_param`,
`classic_id_from_algorithm`) and `composite_alg_table`, which everything else
uses; the KEMs have one table. `WireFormat` has the lengths as a parameter.
`Encode` includes the length query and the test of the buffer, which the six
functions of `kem/composite_kem_encoding.c` share.

### KeyFile

One key of each of the thirty names, with or without private half and seed, and
threads that encode it and read their document back. `Steps` is the order in which an
encoder makes its calls; five orders cover the encoders of both families. Each
step may fail, and gives back what the error path of that point gives back
(`Refuse`). `heap` counts blocks by kind; the copies that the KEM split returns
are a kind of their own, as they come from `malloc`. `switch` is
`EC_INCLUDE_PUBLIC` of the shared traditional `EVP_PKEY`: the KEM encoder turns it
off for good (`SwitchKey`), the signature encoder works on a duplicate
(`CopyKey`). Octets are tokens that say what they are of; `Unwritten` are those
nobody has written. A write may be short. Which decoder takes the document is
`DecoderChain`'s question; here its reader starts from the OID.

### ProviderLoad

Threads run `OSSL_provider_init`. Each step is one call into the OBJ database,
which libcrypto locks for the duration of that call only. A signature OID is
created and then declared with `OBJ_add_sigid`; a KEM OID is looked up and then
created. An OID may be known before, under the provider's name (`Known`) or another
(`Foreign`); `names` are the OIDs that the provider's own name finds.
`CRYPTO_THREAD_run_once` runs the merge on the first thread that asks;
others wait (while `once = "running"`, all that `Query` can do is fail). Where it fails,
`Query` has no list for the caller. `Merge` is one
iteration of `merge_algorithm_lists`. `faults` remembers that an allocation
failed: the return values of both registrations are not looked at, so after a
failure nothing is promised.

## 3. The runs

| Run | Configuration | States | Shows |
|---|---|---|---|
| `kem_key` | `MCKemKey.cfg` | 325,934 | `Ownership`, `PrivateIsUsable`, `NoMixing`, `PrivateNotDiscarded`, and that `KemKey` implements `CompositeKeyStore` |
| `sig_key` | `MCSigKey.cfg` | 204,735 | `Ownership`, `HalvesTogether`, `PrivateIsUsable`, and that `SigKey` implements `SignatureKeyStore` |
| `decoder_chain` | `MCDecoderChain.cfg` | 50,635 | `Released`, `NobodySpoils`, `DecodedAsNamed`, `SearchEnds` |
| `sig_ops` | `MCSigOps.cfg` | 118,134 | `OnlyGenuine`, `EveryHalfSigned`, `GenuineAccepted`, `StreamFaithful` |
| `kem_ops` | `MCKemOps.cfg` | 19,152 | `Agreement`, `Binding`, `NeverAbsorbed`, `AcceptedWorks` |
| `provider_load` | `MCProviderLoad.cfg` | 16,276 | `RegisteredWhenLoaded`, `DeclaredByCreator`, `HandedWhole`, `Terminated` |
| `key_file` | `MCKeyFile.cfg` | 190,597 | `RoundTrip`, `GeneratedAsNamed`, `HeapClean`, `NoPublicField`, `Answered` |
| `sig_key_dup`, `decoder_oid`, `decoder_load`, `sig_ops_long`, `key_file_seedless` | see section 5 | | the code disagrees with what its comments or tests say |

Every passing run also checks its module's `TypeOK`. Three of the type invariants say more than types: in `KemKey` and
`SigKey`, that no count goes below zero (a release too many); in `ProviderLoad`,
that at most one thread merges, exactly while the flag says so.

### Bounds, and why they are enough

- **kem_key**: two keys (one that exports and one that imports, or two that
  allocate at once), four component objects (what two filled keys need; a
  regeneration of one while the other is filled finds the pool exhausted, and
  finds it free when the other is empty), two pairs of each kind (enough to mix),
  one set of foreign parameters whose public and private composites differ.
  Keys and objects are symmetric; the pairs are not, as `Foreign` names some. The
  run has no liveness property, so symmetry is sound for all it checks.
- **sig_key**: two keys (a duplicate and its original), three pairs of each kind: one
  to generate and two that foreign parameters name, which agree in one set of
  parameters and disagree in another.
- **decoder_chain**: two signature algorithms whose serialized keys have one shape
  (as RSA-PSS and PKCS#1 v1.5 of one size have) and a KEM algorithm: six
  decoders. Documents: a proper file per algorithm and structure, and each
  borderline one (unknown OID, parameters, public key field, truncated key,
  something else, nothing), under each of the four selections.
- **sig_ops**: two contexts, of one algorithm or of two, three keys (two share the ML-DSA component, one is a
  public half), two context strings and one too long, two signatures
  (`MaxMade`: recombination needs two), streams of at most two octets
  (`MaxLength`), and an `int` of two bits (`IntMax = 1`), so that lengths of two and four octets
  stand for 2^31 and 2^32.
- **kem_ops**: two contexts, three algorithms (two whose points have the same
  size, and RSA), eight keys that share components, two encapsulations (`MaxSent`). Two are needed to pair
  halves, and one of them may have failed.
- **key_file**: all thirty names, every form and half. Two threads, each of which
  encodes the key once and reads its document back: the switch is the only thing they
  share, and two suffice to read it while it changes. Lengths of halves are small,
  but the parameter sets of one family differ in the public key and agree in the
  private one, as the real ones do. A call may fail, so the run may stop, and
  deadlock is not checked.
- **provider_load**: three threads, two signature OIDs and one KEM OID, of which
  one signature OID may be known beforehand under another name and the KEM OID under
  its own (`DeclaredByCreator` is about the signature OIDs that are not); arrays with room
  for exactly the decoders and a
  terminator, and one encoder too many.

### Fairness

Only `DecoderChain` has a liveness property. `Spec` there assumes weak fairness
of `Step`, the disjunction of everything but the final stuttering: the search is a
loop in its caller's thread, and each call it makes returns. Nothing is assumed
of the order in which the framework takes the decoders or of the outcome of a
step. All other properties are safety properties and need no fairness.

## 4. The proofs

All proofs are for every value of the constants, under the assumptions named in
the modules: `NullAssumption` and `ForeignAssumption` (`NULL` and `None` are not
keys, objects or composites; foreign parameters are well typed),
`ProviderAssumption` (the lists are sequences, signature and KEM algorithms
differ, the arrays have a place), and `SigKeyAssumption`, `DecoderAssumption`,
`SigOpsAssumption`, `KemOpsAssumption`, `SizeAssumption`, `AlgorithmsAssumption` and
`KeyFileAssumption` of the same sort. Six theorems have a
condition of their own, named below, which is where the code relies on something
outside of it.

### KemKeyProofs

`Spec => []TypeOK` cannot be shown on its own: freeing a key subtracts
references, and that stays in `Nat` only if the key owns them. So the inductive
invariant is

    IInv == KeyTypes /\ Shape /\ OneOwnerEach /\ Meaning

- `Shape`: a key is empty or holds two different objects, each in both slots of
  its half exactly if the key is private; the locals of an operation are
  determined by where it is; a key that is not allocated holds nothing.
- `OneOwnerEach`: the counts are exact, which is inductive together with `Shape`.
  `Ownership` says it where no import has missed a reference (`missed`); the step that
  misses one changes the counts the import believes in as `ImportClassic` does, and is
  the last one (`StepCounts`).
- `Meaning`: what the objects contain: a key's components are paired legitimately
  and are private-capable exactly if it says so; an import's first component and
  its remaining parameter come from one serialization.

There is a lemma per action (`NewIInv` ... `ExportIInv`); `OwnershipStep` and
`MeaningStep` are the parts they share. From `Invariance` follow `TypeCorrect`,
`OwnershipHolds`, `PrivateUsable`, `NeverMixed` and, with the action,
`NeverDiscarded`. `Implementation` is the refinement `Spec => ImplementsStore`:
`StoreInitial` maps initial states, `StoreStep` maps each step to a step of the
store or to a stutter, by way of one lemma per kind of store step.

### ProviderLoadProofs

    IInv == TypeOK /\ (\A t \in Threads : Progress(t)) /\ Remaining /\ Named /\ Terminated

`Remaining` is the argument for registration: unless something failed, an OID
that is missing from the database is still on the list of every thread that has
begun, because a thread takes an algorithm off its list only once its OID is in
the database, and nothing removes an OID. A thread that has finished has an empty
list (`Progress`), so nothing is missing. `Named` adds that an OID which was not there
under another name has the provider's name. Theorems: `TypeCorrect`, `Registered`,
`AlwaysTerminated`.

`DeclaredByCreatorHolds` is what the code gives where a test asks for more (section 5): an OID
that a thread created is declared, or is at the head
of that thread's list while it is about to declare it. `DeclaredInTheEnd` follows with
`Registered`: unless something failed, a loaded instance can find an OID undeclared
only if somebody knew it before the provider, or while some thread is between
`OBJ_create` and `OBJ_add_sigid`.

`HandedOutWhole` is about the merge: a list that a query has returned is complete and
in order, or, if it does not fit, cut where its terminator has to be (the comment at
`common/provider.c:17` counts that the present ones fit). Its invariant `Copying` says
at which of the copies the merge is, that each list has `Kept` of the entries taken
for it, and that it is a prefix of the whole; nobody is handed a list before the flag
says done, and then nothing is left to copy.

### SigKeyProofs

    IInv == /\ Types /\ KeysSound
            /\ Proper(wire) /\ (wire.pub = None \/ wire.priv = None)
            /\ call # Idle => Working
    Balance == pkeys = Cardinality(Owned) + InHand

`Sound` says of a key that the components of each half go together, that two halves
that disagree were imported like that, and that private material is where
`has_private` leads one to look; `Working` says where the call under way is and which slots it
has filled. `HalvesTogether` and `PrivateIsUsable` follow. `Balance` counts: every
`EVP_PKEY` is in one slot or in the hands of the call, which is `Ownership`, and
makes `pkeys` a natural number. Only `PrivateIsUsableHolds` assumes `WholeDup`, that
duplicates are of whole keys: without it `PrivateIsUsable` is false, which is the run
`sig_key_dup`. The others hold whatever parts are duplicated.

`SignsAsVerifiesHolds` says that the fallback from private to public slots never makes
a key sign with one composite and verify with another, if no pair is imported whose
sides disagree (`Agreeing`). `SigOps` takes a key to be one composite, and this is why
it may.

`Implementation` is the refinement `Spec => ImplementsStore`, for duplicates of any
part, with a lemma for each kind of step: those that allocate (`StoreAllocates`) or
free (`StoreFrees`), that generate (`StoreDraws`), import or decode (`StoreReads`),
duplicate (`StoreDuplicates`) and export (`StoreHandsOut`), and those that the store
does not see (`StoreWaits`). `HalvesAre` says which composites the slots of a sound
key amount to.

### DecoderChainProofs

    Search == Types /\ Where /\ Progress /\ DecodedAsNamed
    IInv == Search /\ Patience /\ Owner

`Where` ties the place of a decode function to what it has read: the document
parses, and at the hand-over the shapes agree. `Progress` says that the decoder a
readable document is meant for is at work or has decoded it once it has been tried,
unless something failed. From that follow `DecodedAsNamed` and `NobodySpoils` for any
set of algorithms and documents. `DecodedAsNamed` is about private key files of either
family and KEM public keys: a signature public key is only known to have the right shape
(the run `decoder_oid`). `Patience` gives the other half of `NobodySpoils`: without a
failure, a decoder ends a search for the empty input only.

`Owner` says who has the key at which place and how often it was freed: never while
the decoder or the framework has it, and more than once only in a hand-over, which then
is the end of the search. `ReleasedHolds` and `TypeCorrect` follow, whatever the framework
does. That the second free can happen is the run `decoder_load`.

### SigOpsProofs

`IInv` is a type invariant. For the verdicts, `Straight` says that a context has the string
its caller set and the data its caller fed, and that every signature was made for what
was asked for (`AskedIsDone`): the context is a faithful memory of the calls, along any
sequence of them. Each theorem has a lemma about one call: `HalvesComeFrom`,
that halves which verify together agree on all but the key, and for a stream that
narrowing a length keeps it or makes it negative (`ToIntCountable`). Two conditions come to light. `OnlyGenuineHolds` assumes `Separate`:
no key takes its ML-DSA half from one key and its traditional half from another.
A composite signature is no more than its two halves, so with keys (m1, t1),
(m2, t2) and (m1, t2) halves of signatures made with the first two verify under
the third, and TLC finds that when it is given such keys. What holds without that
condition is `EveryHalfSignedHolds`: neither half can come from another algorithm,
message or context string, or from another component key. `StreamFaithfulHolds`
assumes `Countable`: no chunk is longer than an unsigned int can count; the run
`sig_ops_long` shows what happens otherwise. What callers asked for is what is signed only
if the stream is what they fed, so `OnlyGenuineHolds` and `GenuineAcceptedHolds` assume
`Countable` too; the latter needs nothing of the keys.

### KemOpsProofs

`IInv` says that a context in use has passed the checks of its init (`Initialised`)
and that every ciphertext on record was made as recorded (`Faithful`). The
argument is `SecretBinds`: the combiner's inputs name the traditional ciphertext,
the traditional public key and the algorithm, and a shared ML-KEM secret names its
key and ciphertext, so a secret that is not a rejection comes about in one way
only. `OkIsGenuine` adds that the length check leaves only ciphertexts of the right
length, and `GenuineIsOk` is the converse. No condition on the keys is needed:
binding survives whatever components they share, which is where the KEMs
differ from the signatures. `TypeOK` also says that no two recorded encapsulations
are the same (`Fresh`).

### WireFormatProofs

For all lengths of the parameter sets (`SizeAssumption`: at least one octet):
`SplitUndoesJoin`, `JoinUndoesSplit`, `OneReading` (an encoding has one pair of halves)
and `LengthQueryIsEnough`.

### KeyFileProofs

For any number of threads and any lengths of the halves. The steps of an encoder
differ by family, format and kind of key, so the invariant hangs on the next step:

- `Ends`: what is still to do is `Rest` of the next step, so no step is skipped or
  taken twice (`Onward`).
- `Balanced`: the blocks a thread has are `Holding` of its next step, by kind of
  block, and none when it is done. `StepKeeps` and `RefuseKeeps` are what a step that
  succeeds and one that fails do to it; each action then only has to show its own
  allocations and releases. From it follows `KeyFileHeapClean`.
- `Encoding` and `Reading`, together `Content`: which halves the thread has, and that they are those of
  the key, until the document is written or the new key is put together. From it follow
  `KeyFileAnswered`, `KeyFileNoPublicField` and `KeyFileRoundTrip`; the last cites
  `SplitUndoesJoin` for the split, and that no two algorithms share an OID (`OidNames`).
  It assumes that signature keys keep their seed: the run `key_file_seedless` is the
  counterexample without.
- `switch` only falls (`SwitchMayFall`), and only the thread that makes the step changes its
  own record (`OthersStay`): that is the argument for any interleaving of exports.

That the two descriptions of the algorithms agree (`TableAgrees`,
`KeyFileGeneratedAsNamed`) is a fact about thirty rows, and is proved row by row.

### Only model-checked

`SearchEnds`: the proof system has no support for liveness under fairness. Every other property of a
passing run is a theorem.

## 5. Disagreements found

Each is a run that TLC ends with a counterexample; the texts with the quoted lines
are in `PROJECT.json`.

| Run | Property | What the code does |
|---|---|---|
| `sig_ops_long` | `StreamFaithful` | `composite_sig.c:424` narrows a chunk's length to `int` and compares with the narrowed value: a chunk of a multiple of 2^32 octets is reported taken and is not part of the message |
| `sig_key_dup` | `PrivateIsUsable` | `composite_keys.c:245` copies `has_private` whatever is selected, so a duplicate of less than the whole key claims private material it does not have |
| `decoder_oid` | `WrongOidIsDeclined` | `composite_decoder.c:135` trusts a dispatch table to have checked an OID that nothing checks |
| `decoder_load` | `OneOwner` | `composite_kem_keymgmt.c:220` and `composite_keys.c:280` give the key away and leave the decoder its pointer: a framework that takes a key, cannot wrap it and frees it returns 0, and the decoder frees it again |
| `key_file_seedless` | `RoundTrip` | `composite_sig_encoding.c:152` asks for the ML-DSA seed and looks at the return value only, which is 1 for a key without one: what the buffer held is written to the file as the seed |

The passing runs leave these cases out by name: `sig_key` duplicates whole keys,
`decoder_chain` states `DecodedAsNamed` without signature public keys, `sig_ops`
has no chunk of four octets, and in `key_file` only KEM keys may lack a seed, which
their encoder notices. `decoder_chain` leaves no hand-over out: `Released` allows the
second free, and only there.

More have no run:

- `composite_sig_encoding.c:403` returns after the public half, so an export of a key
  pair loses the private half, although the comment at line 391 says that the halves
  are combined for KEYPAIR. `SigKey!Export` does as the code does.
- `composite_encoder.c:42` declares a signature OID only if the same call created it, so
  one of two threads that load at once can be done while the OID is known and not yet
  declared, and an OID that was registered before is never declared.
  `tests/test_oid_registration.c:100-102` says that `OBJ_find_sigid_algs()` "must succeed
  for every composite NID". `DeclaredByCreator` and `DeclaredInTheEnd` say what does hold.
- An OID that somebody else registered under another name makes `OBJ_create` fail, and the
  load succeeds although no codec will find the algorithm by the provider's name
  (`composite_encoder.c:38-43`). `RegisteredWhenLoaded` leaves these names out (`Foreign`).
- `kk_replace_components` ignores both answers of `EVP_PKEY_up_ref`
  (`composite_kem_key.c:555-556`), which generation looks at (lines 97-102).
- `composite_sig_sign_init` ignores its parameters (`composite_sig.c:44`), so a context
  string that is passed to an init is dropped. No text of the repository says otherwise.
- `composite_kem_decoder.c:188` answers an empty input with 0, although its comment
  reserves 0 for failures; no decoder could have read that input, so nobody's search
  is spoilt. `NobodySpoils` says that it is the only such input.

## 6. What is not modelled

- **libcrypto**: component algorithms, BIO, the decoder framework and the OBJ
  database are modelled from how the provider uses them and are marked external
  in the map. Cryptographic strength is assumed: symbolic signatures cannot be
  forged, and hashes do not collide.
- **Octets**: labels, DER and the formats inside a traditional half. A serialization
  is a composite, a shape, a pair of halves or (in `KeyFile`) tokens. That the
  combiner's hash keeps its inputs apart is assumed.
- **Queries that change nothing**: `match`, `validate`, `get_params`, the parameter
  tables. They are functions of the state shown.
  One of them has a flaw that the hazard list names: `composite_keys.c:137` takes the
  answer -1 of `EVP_PKEY_eq` (types differ) for equality.
- **Contexts that only hold arguments**: of generation, encoders and decoders.
- **The dispatch tables** that macros expand from the lists of algorithms.
- **The name of a key** when a KEM key is generated again for another algorithm.
- **The `EVP_PKEY_CTX` of a generation**: `composite_sig_key.c:524` frees it after an RSA
  key only, so every EC and Edwards-curve key leaves one behind.
- **The error queue**, and with it the errors that a second load leaves behind
  (`composite_encoder.c:41`).
- **Concurrent changes of one key**: libcrypto leaves that to the caller. Encoding a
  key on several threads is allowed and is in `KeyFile`.

## 7. Plan

Done, in this order: `CompositeKeyStore`, `KemKey` with proofs, `SigKey`,
`DecoderChain`, `SigOps`, `KemOps`, `ProviderLoad` with proofs; then `Algorithms`,
`WireFormat` with proofs and `KeyFile`, and the proofs of `DecoderChain`, `SigKey`,
`SigOps`, `KemOps` and `KeyFile`; then `SignatureKeyStore` and the refinement of
signature keys.

Left:

1. `DecoderChain` composed with `KemKey` and `SigKey` at the hand-over (`load`),
   so that the two keys of a decode are one state.
2. `match` and `validate` over components of several types, for the answer -1 of
   `EVP_PKEY_eq`.
