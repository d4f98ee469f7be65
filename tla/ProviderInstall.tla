-------------------------- MODULE ProviderInstall --------------------------
(***************************************************************************)
(* Installing a provider package under a managed root, and discovering     *)
(* what is installed there (internal/provider install.go, registry.go,     *)
(* manifest.go).  An install fills a temporary directory next to the live  *)
(* one, moves the live one aside, moves the temporary one into its place   *)
(* and removes what it moved aside.  Installs of the same provider by      *)
(* several processes, and discoveries, may overlap; every file operation   *)
(* may fail, and a process may die at any moment.                          *)
(***************************************************************************)
EXTENDS Integers, FiniteSets

CONSTANTS
    Installers,  \* processes that install the provider, each its own version
    Discoverers, \* processes that read the root
    Previous,    \* the version installed before, if any
    None         \* no directory, no file

\* The directories of the root: the live one and those of the installers.
Live == [kind |-> "live", of |-> None]
Temporary(i) == [kind |-> "install", of |-> i]
Backup(i) == [kind |-> "replace", of |-> i]
Dirs == {Live} \cup {Temporary(i) : i \in Installers} \cup {Backup(i) : i \in Installers}

\* A file is missing, half written or a version.
Versions == Installers \cup {Previous}
File == Versions \cup {"partial", None}

ASSUME NamesAssumption ==
    /\ Versions \cap {"partial", None} = {}
    /\ None # "partial"
    /\ None \notin [executable : File, manifest : File]

\* A directory is missing or holds the two files of a package.
Directory == [executable : File, manifest : File] \cup {None}

VARIABLES
    dir,       \* dir[d]: the files of directory d, or None
    installer, \* installer[i]: [pc, exists, named], named if its error names the backup
    discoverer \* discoverer[p]: [pc, entries, at, manifest, found]

vars == <<dir, installer, discoverer>>

\* A package is an executable and a manifest.
Package(v) == [executable |-> v, manifest |-> v]
Empty == [executable |-> None, manifest |-> None]

IsWhole(d) == d # None /\ d.executable = d.manifest /\ d.manifest \notin {None, "partial"}

\* LoadManifestDirectory accepts a readable manifest next to its executable; it
\* cannot tell a half-written executable from a whole one.
Loads(d) == d # None /\ d.manifest \notin {None, "partial"} /\ d.executable # None

Init ==
    /\ \E live \in {None, Package(Previous)} :
          dir = [d \in Dirs |-> IF d = Live THEN live ELSE None]
    /\ installer = [i \in Installers |-> [pc |-> "new", exists |-> FALSE, named |-> FALSE]]
    /\ discoverer = [p \in Discoverers |-> [pc |-> "new", entries |-> {}, at |-> Live,
                                           manifest |-> None, found |-> {}]]

-----------------------------------------------------------------------------
(* installManaged *)

Goto(i, pc) == installer' = [installer EXCEPT ![i].pc = pc]

\* The destination is inspected and the temporary directory made.
MakeTemporary(i) ==
    /\ installer[i].pc = "new"
    /\ installer' = [installer EXCEPT ![i].pc = "executable", ![i].exists = dir[Live] # None]
    /\ dir' = [dir EXCEPT ![Temporary(i)] = Empty]
    /\ UNCHANGED discoverer

\* Bug variant: the executable is not written to the end.
CopySomeOfExecutable(i) ==
    /\ installer[i].pc = "executable"
    /\ dir' = [dir EXCEPT ![Temporary(i)].executable = "partial"]
    /\ Goto(i, "manifest")
    /\ UNCHANGED discoverer

\* copyExecutable: created, then written.
CopyExecutable(i) ==
    /\ installer[i].pc = "executable"
    /\ \/ /\ dir[Temporary(i)].executable = None
          /\ dir' = [dir EXCEPT ![Temporary(i)].executable = "partial"]
          /\ UNCHANGED installer
       \/ /\ dir[Temporary(i)].executable = "partial"
          /\ dir' = [dir EXCEPT ![Temporary(i)].executable = i]
          /\ Goto(i, "manifest")
    /\ UNCHANGED discoverer

AfterManifest(i) == IF installer[i].exists THEN "deactivate" ELSE "activate"

\* Bug variant: the manifest is only created before the package is activated.
WriteManifestInOneStep(i) ==
    /\ installer[i].pc = "manifest"
    /\ dir' = [dir EXCEPT ![Temporary(i)].manifest = "partial"]
    /\ Goto(i, AfterManifest(i))
    /\ UNCHANGED discoverer

WriteManifest(i) ==
    /\ installer[i].pc = "manifest"
    /\ \/ /\ dir[Temporary(i)].manifest = None
          /\ dir' = [dir EXCEPT ![Temporary(i)].manifest = "partial"]
          /\ UNCHANGED installer
       \/ /\ dir[Temporary(i)].manifest = "partial"
          /\ dir' = [dir EXCEPT ![Temporary(i)].manifest = i]
          /\ Goto(i, AfterManifest(i))
    /\ UNCHANGED discoverer

\* Bug variant: the live directory is removed instead of moved aside.
RemoveLive(i) ==
    /\ installer[i].pc = "deactivate"
    /\ dir[Live] # None
    /\ dir' = [dir EXCEPT ![Live] = None]
    /\ Goto(i, "activate")
    /\ UNCHANGED discoverer

\* os.Rename(destination, backup); it fails if another install has moved it.
Deactivate(i) ==
    /\ installer[i].pc = "deactivate"
    /\ dir[Live] # None
    /\ dir' = [dir EXCEPT ![Backup(i)] = dir[Live], ![Live] = None]
    /\ Goto(i, "activate")
    /\ UNCHANGED discoverer

\* os.Rename(temporary, destination) succeeds unless the destination is there.
Activate(i) ==
    /\ installer[i].pc = "activate"
    /\ dir[Live] = None
    /\ dir' = [dir EXCEPT ![Live] = dir[Temporary(i)], ![Temporary(i)] = None]
    /\ Goto(i, "cleanup")
    /\ UNCHANGED discoverer

\* The rename fails: by itself, or because another install is in place.
ActivateFails(i) ==
    /\ installer[i].pc = "activate"
    /\ Goto(i, IF dir[Backup(i)] # None THEN "restore" ELSE "fail")
    /\ UNCHANGED <<dir, discoverer>>

\* Bug variant: what was moved aside is left there.
GiveUp(i, works) ==
    /\ installer[i].pc = "restore"
    /\ Goto(i, "fail")
    /\ UNCHANGED <<dir, discoverer>>

\* os.Rename(backup, destination) fails by itself, or because another install is in
\* place; the error then names the backup.
Restore(i, works) ==
    LET restored == works /\ dir[Live] = None
    IN  /\ installer[i].pc = "restore"
        /\ dir' = IF restored
                  THEN [dir EXCEPT ![Live] = dir[Backup(i)], ![Backup(i)] = None] ELSE dir
        /\ installer' = [installer EXCEPT ![i].pc = "fail", ![i].named = ~restored]
        /\ UNCHANGED discoverer

\* What os.RemoveAll may leave of a directory: nothing, or after an error any of its
\* files.
Remains(d) ==
    {None} \cup IF d = None THEN {}
                ELSE {d, Empty, [d EXCEPT !.executable = None], [d EXCEPT !.manifest = None]}

\* RemoveAll(backup); its error is ignored.
Cleanup(i) ==
    /\ installer[i].pc = "cleanup"
    /\ \E left \in Remains(dir[Backup(i)]) : dir' = [dir EXCEPT ![Backup(i)] = left]
    /\ Goto(i, "load")
    /\ UNCHANGED discoverer

\* The result is what the destination now loads as.
Load(i) ==
    /\ installer[i].pc = "load"
    /\ Goto(i, IF Loads(dir[Live]) THEN "installed" ELSE "fail")
    /\ UNCHANGED <<dir, discoverer>>

\* A step before the activation fails, the deactivation for want of a destination
\* among others.
StepFails(i) ==
    /\ installer[i].pc \in {"executable", "manifest", "deactivate"}
    /\ Goto(i, "fail")
    /\ UNCHANGED <<dir, discoverer>>

\* An error is returned; the deferred RemoveAll(temporary) runs, and its error is
\* ignored too.
Fail(i) ==
    /\ installer[i].pc = "fail"
    /\ \E left \in Remains(dir[Temporary(i)]) : dir' = [dir EXCEPT ![Temporary(i)] = left]
    /\ Goto(i, "error")
    /\ UNCHANGED discoverer

\* The process dies and leaves the directories as they are.
Crash(i) ==
    /\ installer[i].pc \notin {"new", "installed", "error", "dead"}
    /\ Goto(i, "dead")
    /\ UNCHANGED <<dir, discoverer>>

Install(i) ==
    \/ MakeTemporary(i) \/ CopyExecutable(i) \/ WriteManifest(i) \/ Deactivate(i)
    \/ Activate(i) \/ ActivateFails(i)
    \/ \E works \in BOOLEAN : Restore(i, works)
    \/ Cleanup(i) \/ Load(i) \/ StepFails(i) \/ Fail(i) \/ Crash(i)

-----------------------------------------------------------------------------
(* DiscoverInstallations *)

ReadDir(p) ==
    /\ discoverer[p].pc = "new"
    /\ discoverer' = [discoverer EXCEPT ![p].pc = "loading",
                                        ![p].entries = {d \in Dirs : dir[d] # None}]
    /\ UNCHANGED <<dir, installer>>

\* containsManifest: an entry without a manifest is skipped.
FindManifest(p, d) ==
    /\ discoverer[p].pc = "loading"
    /\ d \in discoverer[p].entries
    /\ discoverer' = [discoverer EXCEPT
           ![p].entries = @ \ {d}, ![p].at = d,
           ![p].pc = IF dir[d] # None /\ dir[d].manifest # None THEN "manifest" ELSE @]
    /\ UNCHANGED <<dir, installer>>

\* LoadManifest: a manifest that cannot be read is an error for the whole root.
LoadManifest(p) ==
    LET at == discoverer[p].at
        readable == dir[at] # None /\ dir[at].manifest \notin {None, "partial"}
    IN  /\ discoverer[p].pc = "manifest"
        /\ discoverer' = [discoverer EXCEPT
               ![p].pc = IF readable THEN "executable" ELSE "error",
               ![p].manifest = IF readable THEN dir[at].manifest ELSE None]
        /\ UNCHANGED <<dir, installer>>

\* So is one without an executable next to it, or in a directory of another name
\* than the provider's.
ResolveExecutable(p) ==
    LET at == discoverer[p].at
        resolved == dir[at] # None /\ dir[at].executable # None /\ at = Live
    IN  /\ discoverer[p].pc = "executable"
        /\ discoverer' = [discoverer EXCEPT
               ![p].pc = IF resolved THEN "loading" ELSE "error",
               ![p].manifest = None,
               ![p].found = IF resolved
                            THEN @ \cup {[executable |-> dir[at].executable,
                                          manifest |-> discoverer[p].manifest]} ELSE @]
        /\ UNCHANGED <<dir, installer>>

Discovered(p) ==
    /\ discoverer[p].pc = "loading"
    /\ discoverer[p].entries = {}
    /\ discoverer' = [discoverer EXCEPT ![p].pc = "listed"]
    /\ UNCHANGED <<dir, installer>>

Discover(p) ==
    \/ ReadDir(p) \/ Discovered(p) \/ LoadManifest(p) \/ ResolveExecutable(p)
    \/ \E d \in Dirs : FindManifest(p, d)

Next == (\E i \in Installers : Install(i)) \/ (\E p \in Discoverers : Discover(p))

Spec == Init /\ [][Next]_vars

-----------------------------------------------------------------------------
(* Properties *)

InstallerState ==
    [pc : {"new", "executable", "manifest", "deactivate", "activate", "restore", "cleanup",
           "load", "fail", "installed", "error", "dead"},
     exists : BOOLEAN, named : BOOLEAN]

DiscovererState ==
    [pc : {"new", "loading", "manifest", "executable", "error", "listed"},
     entries : SUBSET Dirs, at : Dirs, manifest : File,
     found : SUBSET [executable : File, manifest : File]]

\* The type invariant; an install restores only what it moved aside.
TypeOK ==
    /\ dir \in [Dirs -> Directory]
    /\ installer \in [Installers -> InstallerState]
    /\ \A i \in Installers : installer[i].pc = "restore" => dir[Backup(i)] # None
    /\ discoverer \in [Discoverers -> DiscovererState]

\* The live directory holds a whole package of one version or does not exist,
\* whatever installs overlap, fail or die: no half-written executable is ever run.
LiveIsWhole == dir[Live] # None => IsWhole(dir[Live])

\* Discovery reads the root file by file while installs go on, and may list the
\* manifest of one version with the executable of the next, but never a file that is
\* not whole.
ListedIsWhole ==
    \A p \in Discoverers : \A listed \in discoverer[p].found :
        {listed.executable, listed.manifest} \subseteq Versions

Installed == {d \in Dirs : d.kind # "install" /\ IsWhole(dir[d])}

\* A package that was installed is not lost, not even by a process that dies: it,
\* or one that took its place, is live or was moved aside whole.
NothingIsLost == [][Installed # {} => Installed' # {}]_vars

Quiet == \A i \in Installers : installer[i].pc \in {"new", "installed", "error"}

\* When installs fail but none dies, a package that was installed is live again once
\* they have returned, or an error says where it is.
FailuresAreUndone ==
    Quiet /\ Installed # {} => dir[Live] # None \/ \E i \in Installers : installer[i].named
=============================================================================
