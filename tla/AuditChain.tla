----------------------------- MODULE AuditChain -----------------------------
(***************************************************************************)
(* The audit trail of control-plane mutations (crates/core/src/audit.rs):  *)
(* entries chained by hashes, the signed manifest over the tip             *)
(* (crates/cloud/src/audit_sign.rs), and copies of the trail that were     *)
(* altered on disk.                                                        *)
(* A text is a sequence of characters, of which Sep and Ctl are below      *)
(* 0x20; a digest is a character of its own, injective in its pre-image.   *)
(***************************************************************************)
EXTENDS Naturals, Sequences, SequencesExt

CONSTANTS
  Texts,       \* what actors, subjects and details may hold
  Actors,
  Sep,         \* U+001F
  Ctl,         \* another control character
  Replacement, \* U+FFFD
  MaxEntries,  \* bound: length of the chain
  MaxEdits     \* bound: alterations of the copy

VARIABLES
  chain,      \* the org's trail
  copy,       \* a copy of it, possibly altered
  manifests,  \* the manifests that were signed
  edits

vars == <<chain, copy, manifests, edits>>

EmptyHash == <<>>

\* Mutant of Sanitize: the fields are stored as they come.
SanitizeNothing(s) == s

(* sanitize_field: every control character becomes U+FFFD.                 *)
Sanitize(s) == [i \in DOMAIN s |-> IF s[i] \in {Sep, Ctl} THEN Replacement ELSE s[i]]

Join(parts) == FoldLeft(LAMBDA acc, p : acc \o <<Sep>> \o p, Head(parts), Tail(parts))

(* compute_hash over the fields, joined by the separator.                  *)
ComputeHash(e) ==
  <<<<"sha256", Join(<<<<e.seq>>, e.actor, e.subject, e.detail, e.prev>>)>>>>

(* append: the entry after the tip, its fields sanitized first.            *)
Entry(entries, actor, subject, detail) ==
  LET e == [seq |-> Len(entries),
            actor |-> Sanitize(actor), subject |-> Sanitize(subject), detail |-> Sanitize(detail),
            prev |-> IF entries = <<>> THEN EmptyHash ELSE Last(entries).hash,
            hash |-> EmptyHash]
  IN [e EXCEPT !.hash = ComputeHash(e)]

(* verify_chain: 0 for an intact chain, else the first bad entry.          *)
GoodEntry(entries, i) ==
  LET e == entries[i] IN
    /\ e.seq = i - 1
    /\ e.prev = IF i = 1 THEN EmptyHash ELSE entries[i - 1].hash
    /\ e.hash = ComputeHash(e)

VerifyChain(entries) ==
  LET bad == {i \in DOMAIN entries : ~GoodEntry(entries, i)}
  IN IF bad = {} THEN 0 ELSE Min(bad)

(* build_signed_manifest: what the ES256 signature covers.                 *)
Manifest(entries) ==
  IF entries = <<>> THEN [tipSeq |-> 0, tipHash |-> EmptyHash, count |-> 0]
  ELSE [tipSeq |-> Last(entries).seq, tipHash |-> Last(entries).hash, count |-> Len(entries)]

-----------------------------------------------------------------------------
Init ==
  /\ chain = <<>>
  /\ copy = <<>>
  /\ manifests = {}
  /\ edits = 0

(* audit_append; the copy is a snapshot that follows until it is altered.  *)
AuditAppend(actor, subject, detail) ==
  /\ Len(chain) < MaxEntries
  /\ chain' = Append(chain, Entry(chain, actor, subject, detail))
  /\ copy' = IF copy = chain THEN chain' ELSE copy
  /\ UNCHANGED <<manifests, edits>>

AuditManifest ==
  /\ manifests' = manifests \cup {Manifest(chain)}
  /\ UNCHANGED <<chain, copy, edits>>

Altered(new) ==
  /\ edits < MaxEdits /\ edits' = edits + 1
  /\ copy' = new
  /\ UNCHANGED <<chain, manifests>>

(* Whoever holds the file may change it: texts of one entry with or        *)
(* without a new hash, every later hash as well, or the entries there are. *)
EditEntry(i, subject, detail) ==
  LET e == [copy[i] EXCEPT !.subject = subject, !.detail = detail] IN
    Altered([copy EXCEPT ![i] = e]) \/ Altered([copy EXCEPT ![i] = [e EXCEPT !.hash = ComputeHash(e)]])

Relink == Altered(FoldLeft(LAMBDA acc, e : Append(acc, Entry(acc, e.actor, e.subject, e.detail)), <<>>, copy))

DropEntry(i) == Altered(SubSeq(copy, 1, i - 1) \o SubSeq(copy, i + 1, Len(copy)))

SwapEntries(i, j) == Altered([copy EXCEPT ![i] = copy[j], ![j] = copy[i]])

Next ==
  \/ \E actor \in Actors, subject, detail \in Texts : AuditAppend(actor, subject, detail)
  \/ AuditManifest
  \/ \E i \in DOMAIN copy : DropEntry(i) \/ \E subject, detail \in Texts : EditEntry(i, subject, detail)
  \/ \E i, j \in DOMAIN copy : i < j /\ SwapEntries(i, j)
  \/ Relink

Spec == Init /\ [][Next]_vars

-----------------------------------------------------------------------------
(* The trail itself always verifies.  A copy that verifies and matches a   *)
(* signed manifest holds the very entries that were there when it was      *)
(* signed: no field can be re-partitioned into another, no entry dropped,  *)
(* reordered or replaced, even with all later hashes computed again.       *)
ManifestBindsTrail ==
  /\ VerifyChain(chain) = 0
  /\ \A m \in manifests :
       (VerifyChain(copy) = 0 /\ Manifest(copy) = m) => copy = SubSeq(chain, 1, m.count)
=============================================================================
