----------------------------- MODULE HashRepair ----------------------------
(***************************************************************************)
(* The check of the IBC hashes of an asset list and the edit that repairs  *)
(* it, as functions on the list (internal/registry/assetlist.go,           *)
(* internal/checks/ibc_hash.go, EditAssetListJSON of internal/github/      *)
(* pr.go).  The edit works on the raw JSON, asset by asset, from keys that *)
(* the check computed from its own parse of the same file: it is right     *)
(* only if the two readings agree.                                         *)
(***************************************************************************)
EXTENDS Naturals, Sequences, FiniteSets, FiniteSetsExt

CONSTANTS
  Denom,      \* denominations
  IBC,        \* the denominations that start with "ibc/"
  Path,       \* trace paths
  Hash,       \* [Path -> IBC], "ibc/" and the SHA256 of the path
  None        \* the empty path of a trace that declares none; no edited file

Asset == [base : Denom, traces : Seq(Path \cup {None}), units : Seq(Denom)]

ASSUME RepairAssumption ==
  /\ IBC \subseteq Denom
  /\ Hash \in [Path -> IBC]
  /\ None \notin Path

-----------------------------------------------------------------------------
(* An operator named Mutant... is a slip the code could contain, in the     *)
(* place of the definition that follows it.                                 *)

\* lastTracePath of the loader: the path of the last trace that has one.
LastTracePath(traces) ==
  LET set == {i \in DOMAIN traces : traces[i] # None}
  IN  IF set = {} THEN None ELSE traces[Max(set)]

\* LoadAssetList keeps the assets that are IBC denominations with a path.
LoadAssetList(file) ==
  {[base |-> file[i].base, path |-> LastTracePath(file[i].traces)] :
     i \in {j \in DOMAIN file : /\ file[j].base \in IBC
                                /\ LastTracePath(file[j].traces) # None}}

\* CheckDenomHashes, each mismatch with the base it expects.
CheckDenomHashes(assets) ==
  {[base |-> a.base, path |-> a.path, expected |-> Hash[a.path]] :
     a \in {b \in assets : b.base # Hash[b.path]}}

\* lastTracePath of the edit applies the loader's rule to the raw traces.
EditPath(traces) ==
  LET set == {i \in DOMAIN traces : traces[i] # None}
  IN  IF set = {} THEN None ELSE traces[Max(set)]

MutantFixesByBase(asset, fixes) == {f \in fixes : f.base = asset.base}

\* The entry of fixMap for an asset: keyed by base and path.
FixesFor(asset, fixes) ==
  {f \in fixes : f.base = asset.base /\ f.path = EditPath(asset.traces)}

\* The base is replaced, and with it every denom unit that repeats it.
EditAsset(asset, fixes) ==
  IF FixesFor(asset, fixes) = {} THEN asset
  ELSE LET expected == (CHOOSE f \in FixesFor(asset, fixes) : TRUE).expected
       IN  [asset EXCEPT
              !.base = expected,
              !.units = [u \in DOMAIN asset.units |->
                           IF asset.units[u] = asset.base THEN expected ELSE asset.units[u]]]

\* EditAssetListJSON; None when there is nothing to fix.
EditAssetListJSON(file, fixes) ==
  IF \A i \in DOMAIN file : FixesFor(file[i], fixes) = {} THEN None
  ELSE [i \in DOMAIN file |-> EditAsset(file[i], fixes)]

\* runHashChecks for one chain.
Mismatches(file) == CheckDenomHashes(LoadAssetList(file))

-----------------------------------------------------------------------------
(* What a repair must be.                                                   *)

Wrong(asset) ==
  /\ asset.base \in IBC
  /\ LastTracePath(asset.traces) # None
  /\ asset.base # Hash[LastTracePath(asset.traces)]

\* What a repair of one file must be: nothing to propose when nothing is wrong;
\* otherwise a file in which the check finds nothing, that differs from the old
\* one only in its wrong assets, and there only in the old base, wherever the
\* asset repeats it.
Repairs(file, new) ==
  IF Mismatches(file) = {} THEN new = None
  ELSE /\ new \in Seq(Asset)
       /\ Len(new) = Len(file)
       /\ Mismatches(new) = {}
       /\ \A i \in DOMAIN file :
            /\ ~Wrong(file[i]) => new[i] = file[i]
            /\ new[i].traces = file[i].traces
            /\ Len(new[i].units) = Len(file[i].units)
            /\ \A u \in DOMAIN file[i].units :
                 new[i].units[u] = IF file[i].units[u] = file[i].base
                                   THEN new[i].base ELSE file[i].units[u]
=============================================================================
