----------------------------- MODULE MCStorage -----------------------------
(* The machines that keep the broker's state on disk, in one run.  Each    *)
(* has its own state and none reads another's, so a behaviour here is a    *)
(* behaviour of one of them, named by part, with the others at rest: the   *)
(* run explores the union of their state spaces, not their product.        *)
EXTENDS Audit, Catalog, Access, Endpoints, Identity, Keychain, FileVault, Integrity, TLC

VARIABLE part

secretVars == <<idVars, kcVars, fvVars, slVars>>
storageVars == <<part, auditVars, catVars, accVars, epVars, secretVars>>

StorageInit ==
    /\ part \in {"audit", "catalog", "access", "endpoints", "limit",
                "identity", "keychain", "filevault", "integrity"}
    /\ AuditInit /\ (part # "audit" => lines = <<>>)
    /\ CatInit
    /\ AccInit /\ (part # "access" => afile.kind = "none")
    /\ EpInit /\ ssh \in (CASE part = "endpoints" -> {{}, {"c1"}} [] part = "limit" -> {{"c1"}}
                             [] OTHER -> {{}})
    /\ IdInit /\ (part # "identity" => idlegacy = {})
    /\ KcInit /\ (part # "keychain" => ~kcexists)
    /\ FvInit
    /\ SlInit /\ (part # "integrity" => \A f \in SlFiles : slfile[f] = None)

AuditPart ==
    part = "audit" /\ AuditNext /\ UNCHANGED <<part, catVars, accVars, epVars, secretVars>>
CatalogPart ==
    part = "catalog" /\ CatNext /\ UNCHANGED <<part, auditVars, accVars, epVars, secretVars>>
AccessPart ==
    part = "access" /\ AccNext /\ UNCHANGED <<part, auditVars, catVars, epVars, secretVars>>
\* Endpoints twice: one connection, deleted or not, with every fault; and two, one of
\* each kind, that change, share the limit and meet no fault but the end of the process.
EndpointsPart ==
    /\ part \in {"endpoints", "limit"} /\ EpNext
    /\ part = "endpoints" =>
          /\ target'["c1"] \in {0, 1}
          /\ \A c \in EpConns \ {"c1"} :
                /\ target'[c] = 1 /\ reg'[c] = NoEp /\ c \notin barred'
                /\ \A t \in EpTasks : task'[t].c # c
    /\ part = "limit" => scar'.count = 0 /\ barred' = {}
    /\ UNCHANGED <<part, auditVars, catVars, accVars, secretVars>>

\* The rest of what the broker keeps, while one of the sources of secrets moves.
FilesRest == UNCHANGED <<part, auditVars, catVars, accVars, epVars>>
IdentityPart ==
    part = "identity" /\ IdNext /\ FilesRest /\ UNCHANGED <<kcVars, fvVars, slVars>>
KeychainPart ==
    part = "keychain" /\ KcNext /\ FilesRest /\ UNCHANGED <<idVars, fvVars, slVars>>
FileVaultPart ==
    part = "filevault" /\ FvNext /\ FilesRest /\ UNCHANGED <<idVars, kcVars, slVars>>
IntegrityPart ==
    part = "integrity" /\ SlNext /\ FilesRest /\ UNCHANGED <<idVars, kcVars, fvVars>>
StorageNext ==
    \/ AuditPart \/ CatalogPart \/ AccessPart \/ EndpointsPart
    \/ IdentityPart \/ KeychainPart \/ FileVaultPart \/ IntegrityPart

StorageSpec == StorageInit /\ [][StorageNext]_storageVars

\* Secret names are interchangeable.
StorageSymm == Permutations(CatNames)

\* What an id that no record has any more marks, holds or keeps tells no states apart: it
\* is never used again.  Nor does the rest of an operation that only has to show an address.
Living == {r[c].id : r \in {reg, epfile}, c \in EpConns} \ {0}
Marks == [what \in DOMAIN scar \ {"count"} |-> scar[what] \cap Living]
Ahead(k) ==
    [k EXCEPT !.op = IF k.pc = "show" /\ k.op # "issue" THEN "read" ELSE k.op,
              !.ep = CASE k.ep.id \notin Living -> NoEp
                       [] k.pc = "show" -> [k.ep EXCEPT !.sec = 0]
                       [] OTHER -> k.ep]
EndpointsView ==
    <<ssh, target, barred, reg, epfile, [i \in Living |-> <<lis[i], kept[i]>>], minted,
      [t \in EpTasks |-> Ahead(task[t])], run, due, scar.count, Marks>>

\* Vault items no index names, and the forms of editors that no version fits any more, tell
\* none apart: an id is handed out once, and versions only grow.
Named(items) == items \cap (Relied(mem) \cup Relied(disk))
Fitting == {c \in CatConns : Version(seen[c]) \in {Version(mem.con[c]), Version(disk.con[c])}}
CatalogView ==
    <<mem, disk, Named(vault), Named(undone), fresh, born, op, skew,
      [c \in Fitting |-> seen[c]], up>>

\* The machines at rest tell no states apart either.
StorageView ==
    <<part, CASE part = "audit" -> auditVars [] part = "catalog" -> CatalogView
              [] part = "access" -> accVars
              [] part \in {"endpoints", "limit"} -> EndpointsView
              [] part = "identity" -> idVars [] part = "keychain" -> kcVars
              [] part = "filevault" -> fvVars [] part = "integrity" -> slVars>>
=============================================================================
