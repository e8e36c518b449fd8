-------------------------- MODULE ReleaseManifest --------------------------
(***************************************************************************)
(* The register of what served an environment: the rules of                *)
(* scripts/release_manifest.py.  A register is a sequence of entries, the  *)
(* newest last; an entry names the version of the API function that passed *)
(* a smoke, the digest of its package (NoTree when the account could not   *)
(* be asked for it) and, when a rollback wrote it, the version it left (0  *)
(* otherwise).  A digest is modelled by the tree it was built from, since  *)
(* the package is built deterministically.                                 *)
(***************************************************************************)
EXTENDS Integers, Sequences

CONSTANTS
  Tree,     \* the commits that may be deployed
  NoTree,   \* no digest, no tree
  Keep      \* KEEP, or the fewer entries that LIMIT_BYTES leaves room for

ASSUME NoTreeAssumption == NoTree \notin Tree
ASSUME KeepAssumption   == Keep \in Nat \ {0}

Entry == [version : Nat \ {0}, digest : Tree \cup {NoTree}, from : Nat]

\* append: the oldest entry makes room.
Appended(register, e) ==
  IF Len(register) < Keep THEN Append(register, e) ELSE Append(Tail(register), e)

\* rejected
Rejected(register) == {register[i].from : i \in DOMAIN register} \ {0}

\* rollback_target: the entries older than the newest one of the version
\* that serves, but for that version and those some rollback moved away from.
Candidates(register, current) ==
  {i \in DOMAIN register :
     /\ \E j \in DOMAIN register : register[j].version = current /\ i < j
     /\ register[i].version # current
     /\ register[i].version \notin Rejected(register)}

Newest(register, candidates) ==
  {register[i] : i \in {i \in candidates : \A j \in candidates : j <= i}}

\* The version a rollback may go to: one, or none when it must refuse.
Targets(register, current) ==
  {e.version : e \in Newest(register, Candidates(register, current))}

\* The digest the newest entry of a version carries; none without an entry.
Digests(register, version) ==
  {e.digest : e \in Newest(register,
                 {i \in DOMAIN register : register[i].version = version})}
=============================================================================
