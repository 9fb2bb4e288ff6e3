------------------------------- MODULE PatchCache -------------------------------
(***************************************************************************)
(* The cache of clean patches: what is shown under edited text, rendered   *)
(* on the threads of its callers (clean_patch.rs).                         *)
(*                                                                         *)
(* Data abstraction: a request is its key, the text and its resolution,    *)
(* and a size; `recency' holds the resident keys from the least recently   *)
(* used on, which the clock of the code stands for.                        *)
(***************************************************************************)
EXTENDS Integers, Sequences, FiniteSetsExt, Recency

CONSTANTS
  Caller,             \* threads
  Patch,              \* texts
  Dpi,                \* resolutions that are asked for
  Bucket,             \* the resolutions that are rendered
  SizeOf,             \* bucket -> bytes of a patch
  Budget,
  Nothing,
  MaxDecoded          \* bound: bytes that are accounted for

ASSUME CacheAssumption ==
  /\ Bucket \subseteq Nat /\ Bucket # {} /\ Dpi \subseteq Nat
  /\ SizeOf \in [Bucket -> Nat]
  /\ Budget \in Nat /\ MaxDecoded \in Nat
  /\ Nothing \notin Patch \X Bucket

VARIABLES
  recency, visible,   \* the resident keys, and which of them are on the screen
  decoded,            \* decoded_bytes
  cancelled,
  rendering           \* caller -> the key it missed and renders

cacheVars == <<recency, visible, decoded, cancelled, rendering>>

\* The largest bucket that is not above, or the smallest one.
DpiBucket(dpi) ==
  LET below == {b \in Bucket : b <= dpi} IN IF below = {} THEN Min(Bucket) ELSE Max(below)

Keys == Patch \X Bucket

Key(patch, dpi) == <<patch, DpiBucket(dpi)>>

DecodedSize(key) == SizeOf[key[2]]

Resident == {recency[i] : i \in DOMAIN recency}

InitCache ==
  /\ recency = <<>>
  /\ visible = {}
  /\ decoded = 0
  /\ cancelled = FALSE
  /\ rendering = [c \in Caller |-> Nothing]

Touch(key) == Append(Only(recency, Keys \ {key}), key)

\* get_or_render up to the backend: a hit is answered, a miss is rendered
\* without the lock.
Lookup(c, patch, dpi) ==
  LET key == Key(patch, dpi) IN
  /\ ~cancelled
  /\ rendering[c] = Nothing
  /\ IF key \in Resident
     THEN /\ recency' = Touch(key)
          /\ UNCHANGED rendering
     ELSE /\ rendering' = [rendering EXCEPT ![c] = key]
          /\ UNCHANGED recency
  /\ UNCHANGED <<visible, decoded, cancelled>>

\* Over the budget, and with another one resident, the oldest patch that is
\* not visible goes.
EvictOldest(left, shown) ==
  LET hidden == Only(left.keys, Keys \ shown) IN
  IF left.account <= Budget \/ Len(left.keys) <= 1 \/ hidden = <<>>
  THEN left
  ELSE [keys |-> Only(left.keys, Keys \ {hidden[1]}), account |-> left.account - DecodedSize(hidden[1])]

\* What is left of the keys and of the account: no more rounds than keys.
Evicted(keys, account, shown) ==
  LET left[n \in 0 .. Len(keys)] ==
        IF n = 0 THEN [keys |-> keys, account |-> account] ELSE EvictOldest(left[n - 1], shown)
  IN left[Len(keys)]

\* The rest of get_or_render: the patch is inserted as not visible, also over
\* one that another caller has inserted meanwhile, and whatever was cancelled.
Insert(c) ==
  LET key   == rendering[c]
      shown == visible \ {key}
      left  == Evicted(Touch(key), decoded + DecodedSize(key), shown) IN
  /\ key # Nothing
  /\ decoded + DecodedSize(key) <= MaxDecoded
  /\ recency' = left.keys
  /\ decoded' = left.account
  /\ visible' = shown
  /\ rendering' = [rendering EXCEPT ![c] = Nothing]
  /\ UNCHANGED cancelled

\* The backend refuses: a source key that is not of the page, no resolution.
RenderFails(c) ==
  /\ rendering[c] # Nothing
  /\ rendering' = [rendering EXCEPT ![c] = Nothing]
  /\ UNCHANGED <<recency, visible, decoded, cancelled>>

SetVisible(key, shown) ==
  /\ key \in Resident
  /\ visible' = IF shown THEN visible \cup {key} ELSE visible \ {key}
  /\ UNCHANGED <<recency, decoded, cancelled, rendering>>

\* Mutant of Clear: keeps what is on the screen and forgets that it does.
ClearHidden ==
  /\ recency' = Only(recency, visible)
  /\ decoded' = 0
  /\ UNCHANGED <<visible, cancelled, rendering>>

Clear ==
  /\ recency' = <<>>
  /\ visible' = {}
  /\ decoded' = 0
  /\ UNCHANGED <<cancelled, rendering>>

Cancel ==
  /\ cancelled' = TRUE
  /\ recency' = <<>>
  /\ visible' = {}
  /\ decoded' = 0
  /\ UNCHANGED rendering

NextCache ==
  \/ \E c \in Caller, patch \in Patch, dpi \in Dpi : Lookup(c, patch, dpi)
  \/ \E c \in Caller : Insert(c) \/ RenderFails(c)
  \/ \E key \in Resident, shown \in BOOLEAN : SetVisible(key, shown)
  \/ Clear
  \/ Cancel

SpecCache == InitCache /\ [][NextCache]_cacheVars

-----------------------------------------------------------------------------
(* Properties                                                              *)

ResidentBytes(keys) == MapThenSumSet(DecodedSize, keys)

\* The account never says less than what is resident, so that memory is within
\* what was accounted for and the subtraction of an eviction cannot underflow:
\* also when two callers render one patch, or the cache is cleared or
\* cancelled under a render.
PatchMemoryIsBounded ==
  /\ ResidentBytes(Resident) <= decoded
  /\ visible \subseteq Resident
=============================================================================
