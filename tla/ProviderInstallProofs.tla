----------------------- MODULE ProviderInstallProofs -----------------------
(***************************************************************************)
(* Any number of processes may install a provider and read the registry,   *)
(* fail and die: the live package is whole, what discovery lists is whole, *)
(* an installed package is never lost, and failures are undone.            *)
(***************************************************************************)
EXTENDS ProviderInstall, TLAPS

\* What installer i has built by the time it gets somewhere.
BuiltBy(i) ==
    /\ installer[i].pc \in {"executable", "manifest"} => dir[Temporary(i)] # None
    /\ installer[i].pc = "manifest" => dir[Temporary(i)].executable = i
    /\ installer[i].pc \in {"deactivate", "activate"} => dir[Temporary(i)] = Package(i)

Built == \A i \in Installers : BuiltBy(i)

\* What i moved aside was whole, and is until it is cleaned up.
AsideBy(i) ==
    /\ installer[i].pc \in {"new", "executable", "manifest", "deactivate"} => dir[Backup(i)] = None
    /\ installer[i].pc \in {"activate", "restore"} /\ dir[Backup(i)] # None => IsWhole(dir[Backup(i)])
    /\ installer[i].pc = "restore" => dir[Backup(i)] # None

Aside == \A i \in Installers : AsideBy(i)

\* A manifest that discovery has read was written to the end.
Read == \A p \in Discoverers :
            discoverer[p].pc = "executable" => discoverer[p].manifest \in Versions

\* i holds a package aside and is not about to remove it.
Holds(i) == installer[i].pc # "cleanup" /\ IsWhole(dir[Backup(i)])

\* While an installer cleans up there is a package besides the one it removes.
Spare ==
    (\E i \in Installers : installer[i].pc = "cleanup") =>
        dir[Live] # None \/ \E j \in Installers : Holds(j)

\* i has moved the live package aside and will put one in its place, unless it dies.
Owes(i) ==
    \/ installer[i].pc = "activate" /\ dir[Backup(i)] # None
    \/ installer[i].pc \in {"restore", "dead"}
    \/ installer[i].named

\* Somebody answers for a package that is aside while none is live.
Owed ==
    dir[Live] = None /\ (\E i \in Installers : dir[Backup(i)] # None) =>
        \E j \in Installers : Owes(j)

IInv == TypeOK /\ LiveIsWhole /\ ListedIsWhole /\ Built /\ Aside /\ Read /\ Spare /\ Owed

-----------------------------------------------------------------------------
(* The directories *)

\* The directories of the root are different from each other.
LEMMA DirNames ==
    /\ Live \in Dirs
    /\ \A i \in Installers : /\ Temporary(i) \in Dirs /\ Backup(i) \in Dirs
                             /\ Temporary(i) # Live /\ Backup(i) # Live
    /\ \A i, j \in Installers :
          /\ Temporary(i) # Backup(j)
          /\ Temporary(i) = Temporary(j) => i = j
          /\ Backup(i) = Backup(j) => i = j
    /\ \A d \in Dirs : d.kind # "install" =>
          d = Live \/ \E i \in Installers : d = Backup(i)
    /\ Live.kind # "install" /\ \A i \in Installers : Backup(i).kind # "install"
  <1>1. Live \in Dirs /\ \A i \in Installers : Temporary(i) \in Dirs /\ Backup(i) \in Dirs
    BY DEF Dirs
  <1>2. \A i \in Installers : /\ Live.kind = "live" /\ Temporary(i).kind = "install"
                              /\ Backup(i).kind = "replace"
                              /\ Temporary(i).of = i /\ Backup(i).of = i
    BY DEF Live, Temporary, Backup
  <1>3. Live.kind = "live"
    BY DEF Live
  <1>4. \A d \in Dirs : d.kind # "install" => d = Live \/ \E i \in Installers : d = Backup(i)
    BY <1>2 DEF Dirs
  <1> QED
    BY <1>1, <1>2, <1>3, <1>4

\* Facts about files and packages.
LEMMA PackageFacts ==
    /\ Empty \in [executable : File, manifest : File]
    /\ Empty # None
    /\ \A v \in Versions : /\ Package(v) \in [executable : File, manifest : File]
                           /\ Package(v) # None
                           /\ IsWhole(Package(v))
    /\ \A d \in Directory :
          IsWhole(d) <=> /\ d # None /\ d.executable = d.manifest
                         /\ d.manifest \in Versions
    /\ ~IsWhole(None)
  BY NamesAssumption DEF Empty, Package, IsWhole, Directory, File, Versions

\* What a removal leaves is a directory again.
LEMMA RemainsType ==
    ASSUME NEW d \in Directory, NEW left \in Remains(d)
    PROVE  left \in Directory
  BY PackageFacts DEF Remains, Directory, File

-----------------------------------------------------------------------------
(* The invariant holds initially *)

\* Before the first install nothing is built, moved aside or read.
LEMMA InitInv == Init => IInv
  <1> SUFFICES ASSUME Init PROVE IInv
    OBVIOUS
  <1>1. PICK live \in {None, Package(Previous)} :
            dir = [d \in Dirs |-> IF d = Live THEN live ELSE None]
    BY DEF Init
  <1>2. /\ dir[Live] = live
        /\ \A i \in Installers : dir[Backup(i)] = None
    BY <1>1, DirNames
  <1>3. \A i \in Installers : installer[i].pc = "new" /\ ~installer[i].named
    BY DEF Init
  <1>4. TypeOK
    <2>1. dir \in [Dirs -> Directory]
      BY <1>1, PackageFacts DEF Versions, Directory
    <2>2. discoverer \in [Discoverers -> DiscovererState]
      BY DirNames DEF Init, File, DiscovererState
    <2>3. installer \in [Installers -> InstallerState]
      BY DEF Init, InstallerState
    <2> QED
      BY <2>1, <2>2, <2>3, <1>3 DEF TypeOK
  <1>5. LiveIsWhole
    BY <1>2, PackageFacts DEF LiveIsWhole, Versions
  <1>6. ListedIsWhole /\ Read
    BY DEF Init, ListedIsWhole, Read
  <1>7. Built /\ Aside /\ Spare /\ Owed
    BY <1>2, <1>3 DEF Built, BuiltBy, Aside, AsideBy, Spare, Owed
  <1> QED
    BY <1>4, <1>5, <1>6, <1>7 DEF IInv

-----------------------------------------------------------------------------
(* The steps of an installer *)

\* A step of i that keeps its own part of the invariant, and the parts about the live
\* directory, keeps the invariant.
LEMMA InstallerStep ==
    ASSUME IInv, NEW i \in Installers, UNCHANGED discoverer,
           dir' \in [Dirs -> Directory], installer' \in [Installers -> InstallerState],
           \A j \in Installers \ {i} : /\ installer'[j] = installer[j]
                                        /\ dir'[Temporary(j)] = dir[Temporary(j)]
                                        /\ dir'[Backup(j)] = dir[Backup(j)],
           LiveIsWhole', BuiltBy(i)', AsideBy(i)', Spare', Owed'
    PROVE  IInv'
  <1>1. \A j \in Installers \ {i} : BuiltBy(j)' /\ AsideBy(j)'
    BY DEF IInv, Built, BuiltBy, Aside, AsideBy
  <1>2. Built' /\ Aside'
    BY <1>1 DEF Built, Aside
  <1>3. TypeOK'
    BY <1>2 DEF IInv, TypeOK, Aside, AsideBy
  <1>4. ListedIsWhole' /\ Read'
    BY DEF IInv, ListedIsWhole, Read
  <1> QED
    BY <1>2, <1>3, <1>4 DEF IInv

\* An empty directory is made.
LEMMA MakeTemporaryInv ==
    ASSUME IInv, NEW i \in Installers, MakeTemporary(i)
    PROVE  IInv'
  <1>t. dir \in [Dirs -> Directory] /\ installer \in [Installers -> InstallerState]
    BY DEF IInv, TypeOK
  <1>1. dir' \in [Dirs -> Directory]
    BY <1>t, DirNames, PackageFacts DEF MakeTemporary, Directory
  <1>2. installer' \in [Installers -> InstallerState]
    BY <1>t DEF MakeTemporary, Goto, InstallerState
  <1>3. /\ installer[i].pc = "new"
        /\ installer'[i].pc = "executable" /\ installer'[i].named = installer[i].named
        /\ dir'[Live] = dir[Live]
        /\ dir'[Temporary(i)] = Empty
        /\ dir'[Backup(i)] = dir[Backup(i)]
    BY <1>t, DirNames DEF MakeTemporary, Goto, InstallerState
  <1>4. \A j \in Installers \ {i} : /\ installer'[j] = installer[j]
                                      /\ dir'[Temporary(j)] = dir[Temporary(j)]
                                      /\ dir'[Backup(j)] = dir[Backup(j)]
    BY <1>t, DirNames DEF MakeTemporary, Goto
  <1>5. LiveIsWhole'
    BY <1>3, PackageFacts DEF MakeTemporary, IInv, LiveIsWhole, Built, BuiltBy, Aside, AsideBy, Versions
  <1>6. BuiltBy(i)'
    BY <1>3, PackageFacts DEF MakeTemporary, IInv, Built, BuiltBy, AfterManifest
  <1>7. AsideBy(i)'
    BY <1>3, PackageFacts DEF MakeTemporary, IInv, LiveIsWhole, Aside, AsideBy, AfterManifest
  <1>8. Spare'
    BY <1>3, <1>4, <1>5, PackageFacts DEF IInv, Spare, Holds, LiveIsWhole
  <1>9. Owed'
    BY <1>3, <1>4, PackageFacts DEF IInv, Owed, Owes, Aside, AsideBy
  <1>10. UNCHANGED discoverer
    BY DEF MakeTemporary
  <1> QED
    BY <1>1, <1>2, <1>4, <1>5, <1>6, <1>7, <1>8, <1>9, <1>10, InstallerStep

\* The whole live package is moved aside.
LEMMA DeactivateInv ==
    ASSUME IInv, NEW i \in Installers, Deactivate(i)
    PROVE  IInv'
  <1>t. dir \in [Dirs -> Directory] /\ installer \in [Installers -> InstallerState]
    BY DEF IInv, TypeOK
  <1>1. dir' \in [Dirs -> Directory]
    BY <1>t, DirNames, PackageFacts DEF Deactivate, Directory
  <1>2. installer' \in [Installers -> InstallerState]
    BY <1>t DEF Deactivate, Goto, InstallerState
  <1>3. /\ installer[i].pc = "deactivate"
        /\ installer'[i].pc = "activate" /\ installer'[i].named = installer[i].named
        /\ dir'[Live] = None
        /\ dir'[Temporary(i)] = dir[Temporary(i)]
        /\ dir'[Backup(i)] = dir[Live]
    BY <1>t, DirNames DEF Deactivate, Goto, InstallerState
  <1>4. \A j \in Installers \ {i} : /\ installer'[j] = installer[j]
                                      /\ dir'[Temporary(j)] = dir[Temporary(j)]
                                      /\ dir'[Backup(j)] = dir[Backup(j)]
    BY <1>t, DirNames DEF Deactivate, Goto
  <1>w. IsWhole(dir[Live])
    BY DEF Deactivate, IInv, LiveIsWhole
  <1>5. LiveIsWhole'
    BY <1>3, PackageFacts DEF Deactivate, IInv, LiveIsWhole, Built, BuiltBy, Aside, AsideBy, Versions
  <1>6. BuiltBy(i)'
    BY <1>3, PackageFacts DEF Deactivate, IInv, Built, BuiltBy, AfterManifest
  <1>7. AsideBy(i)'
    BY <1>3, PackageFacts DEF Deactivate, IInv, LiveIsWhole, Aside, AsideBy, AfterManifest
  <1>8. Spare'
    BY <1>3, <1>4, <1>5, <1>w DEF IInv, Spare, Holds, LiveIsWhole
  <1>9. Owed'
    BY <1>3, <1>4, PackageFacts DEF IInv, Owed, Owes, Aside, AsideBy
  <1>10. UNCHANGED discoverer
    BY DEF Deactivate
  <1> QED
    BY <1>1, <1>2, <1>4, <1>5, <1>6, <1>7, <1>8, <1>9, <1>10, InstallerStep

\* A whole package becomes live.
LEMMA ActivateInv ==
    ASSUME IInv, NEW i \in Installers, Activate(i)
    PROVE  IInv'
  <1>t. dir \in [Dirs -> Directory] /\ installer \in [Installers -> InstallerState]
    BY DEF IInv, TypeOK
  <1>1. dir' \in [Dirs -> Directory]
    BY <1>t, DirNames, PackageFacts DEF Activate, Directory
  <1>2. installer' \in [Installers -> InstallerState]
    BY <1>t DEF Activate, Goto, InstallerState
  <1>3. /\ installer[i].pc = "activate"
        /\ installer'[i].pc = "cleanup" /\ installer'[i].named = installer[i].named
        /\ dir'[Live] = dir[Temporary(i)]
        /\ dir'[Temporary(i)] = None
        /\ dir'[Backup(i)] = dir[Backup(i)]
    BY <1>t, DirNames DEF Activate, Goto, InstallerState
  <1>4. \A j \in Installers \ {i} : /\ installer'[j] = installer[j]
                                      /\ dir'[Temporary(j)] = dir[Temporary(j)]
                                      /\ dir'[Backup(j)] = dir[Backup(j)]
    BY <1>t, DirNames DEF Activate, Goto
  <1>l. dir'[Live] # None
    BY <1>3, PackageFacts DEF IInv, Built, BuiltBy, Versions
  <1>5. LiveIsWhole'
    BY <1>3, PackageFacts DEF Activate, IInv, LiveIsWhole, Built, BuiltBy, Aside, AsideBy, Versions
  <1>6. BuiltBy(i)'
    BY <1>3, PackageFacts DEF Activate, IInv, Built, BuiltBy, AfterManifest
  <1>7. AsideBy(i)'
    BY <1>3, PackageFacts DEF Activate, IInv, LiveIsWhole, Aside, AsideBy, AfterManifest
  <1>8. Spare'
    BY <1>3, <1>4, <1>5, <1>l DEF IInv, Spare, Holds, LiveIsWhole
  <1>9. Owed'
    BY <1>3, <1>4, <1>l DEF IInv, Owed, Owes, Aside, AsideBy
  <1>10. UNCHANGED discoverer
    BY DEF Activate
  <1> QED
    BY <1>1, <1>2, <1>4, <1>5, <1>6, <1>7, <1>8, <1>9, <1>10, InstallerStep

\* What was moved aside is to be restored.
LEMMA ActivateFailsInv ==
    ASSUME IInv, NEW i \in Installers, ActivateFails(i)
    PROVE  IInv'
  <1>t. dir \in [Dirs -> Directory] /\ installer \in [Installers -> InstallerState]
    BY DEF IInv, TypeOK
  <1>1. dir' \in [Dirs -> Directory]
    BY <1>t, DirNames, PackageFacts DEF ActivateFails
  <1>2. installer' \in [Installers -> InstallerState]
    BY <1>t DEF ActivateFails, Goto, InstallerState
  <1>3. /\ installer[i].pc = "activate"
        /\ installer'[i].pc = (IF dir[Backup(i)] # None THEN "restore" ELSE "fail") /\ installer'[i].named = installer[i].named
        /\ dir'[Live] = dir[Live]
        /\ dir'[Temporary(i)] = dir[Temporary(i)]
        /\ dir'[Backup(i)] = dir[Backup(i)]
    BY <1>t, DirNames DEF ActivateFails, Goto, InstallerState
  <1>4. \A j \in Installers \ {i} : /\ installer'[j] = installer[j]
                                      /\ dir'[Temporary(j)] = dir[Temporary(j)]
                                      /\ dir'[Backup(j)] = dir[Backup(j)]
    BY <1>t, DirNames DEF ActivateFails, Goto
  <1>5. LiveIsWhole'
    BY <1>3, PackageFacts DEF ActivateFails, IInv, LiveIsWhole, Built, BuiltBy, Aside, AsideBy, Versions
  <1>6. BuiltBy(i)'
    BY <1>3, PackageFacts DEF ActivateFails, IInv, Built, BuiltBy, AfterManifest
  <1>7. AsideBy(i)'
    BY <1>3, PackageFacts DEF ActivateFails, IInv, LiveIsWhole, Aside, AsideBy, AfterManifest
  <1>8. Spare'
    BY <1>3, <1>4, <1>5, PackageFacts DEF IInv, Spare, Holds, LiveIsWhole
  <1>9. Owed'
    BY <1>3, <1>4, PackageFacts DEF IInv, Owed, Owes, Aside, AsideBy
  <1>10. UNCHANGED discoverer
    BY DEF ActivateFails
  <1> QED
    BY <1>1, <1>2, <1>4, <1>5, <1>6, <1>7, <1>8, <1>9, <1>10, InstallerStep

\* The result of an install is read.
LEMMA LoadInv ==
    ASSUME IInv, NEW i \in Installers, Load(i)
    PROVE  IInv'
  <1>t. dir \in [Dirs -> Directory] /\ installer \in [Installers -> InstallerState]
    BY DEF IInv, TypeOK
  <1>1. dir' \in [Dirs -> Directory]
    BY <1>t, DirNames, PackageFacts DEF Load
  <1>2. installer' \in [Installers -> InstallerState]
    BY <1>t DEF Load, Goto, InstallerState
  <1>3. /\ installer[i].pc = "load"
        /\ installer'[i].pc = (IF Loads(dir[Live]) THEN "installed" ELSE "fail") /\ installer'[i].named = installer[i].named
        /\ dir'[Live] = dir[Live]
        /\ dir'[Temporary(i)] = dir[Temporary(i)]
        /\ dir'[Backup(i)] = dir[Backup(i)]
    BY <1>t, DirNames DEF Load, Goto, InstallerState
  <1>4. \A j \in Installers \ {i} : /\ installer'[j] = installer[j]
                                      /\ dir'[Temporary(j)] = dir[Temporary(j)]
                                      /\ dir'[Backup(j)] = dir[Backup(j)]
    BY <1>t, DirNames DEF Load, Goto
  <1>5. LiveIsWhole'
    BY <1>3, PackageFacts DEF Load, IInv, LiveIsWhole, Built, BuiltBy, Aside, AsideBy, Versions
  <1>6. BuiltBy(i)'
    BY <1>3, PackageFacts DEF Load, IInv, Built, BuiltBy, AfterManifest
  <1>7. AsideBy(i)'
    BY <1>3, PackageFacts DEF Load, IInv, LiveIsWhole, Aside, AsideBy, AfterManifest
  <1>8. Spare'
    BY <1>3, <1>4, <1>5, PackageFacts DEF IInv, Spare, Holds, LiveIsWhole
  <1>9. Owed'
    BY <1>3, <1>4, PackageFacts DEF IInv, Owed, Owes, Aside, AsideBy
  <1>10. UNCHANGED discoverer
    BY DEF Load
  <1> QED
    BY <1>1, <1>2, <1>4, <1>5, <1>6, <1>7, <1>8, <1>9, <1>10, InstallerStep

\* A step fails.
LEMMA StepFailsInv ==
    ASSUME IInv, NEW i \in Installers, StepFails(i)
    PROVE  IInv'
  <1>t. dir \in [Dirs -> Directory] /\ installer \in [Installers -> InstallerState]
    BY DEF IInv, TypeOK
  <1>1. dir' \in [Dirs -> Directory]
    BY <1>t, DirNames, PackageFacts DEF StepFails
  <1>2. installer' \in [Installers -> InstallerState]
    BY <1>t DEF StepFails, Goto, InstallerState
  <1>3. /\ installer[i].pc \in {"executable", "manifest", "deactivate"}
        /\ installer'[i].pc = "fail" /\ installer'[i].named = installer[i].named
        /\ dir'[Live] = dir[Live]
        /\ dir'[Temporary(i)] = dir[Temporary(i)]
        /\ dir'[Backup(i)] = dir[Backup(i)]
    BY <1>t, DirNames DEF StepFails, Goto, InstallerState
  <1>4. \A j \in Installers \ {i} : /\ installer'[j] = installer[j]
                                      /\ dir'[Temporary(j)] = dir[Temporary(j)]
                                      /\ dir'[Backup(j)] = dir[Backup(j)]
    BY <1>t, DirNames DEF StepFails, Goto
  <1>5. LiveIsWhole'
    BY <1>3, PackageFacts DEF StepFails, IInv, LiveIsWhole, Built, BuiltBy, Aside, AsideBy, Versions
  <1>6. BuiltBy(i)'
    BY <1>3, PackageFacts DEF StepFails, IInv, Built, BuiltBy, AfterManifest
  <1>7. AsideBy(i)'
    BY <1>3, PackageFacts DEF StepFails, IInv, LiveIsWhole, Aside, AsideBy, AfterManifest
  <1>8. Spare'
    BY <1>3, <1>4, <1>5, PackageFacts DEF IInv, Spare, Holds, LiveIsWhole
  <1>9. Owed'
    BY <1>3, <1>4, PackageFacts DEF IInv, Owed, Owes, Aside, AsideBy
  <1>10. UNCHANGED discoverer
    BY DEF StepFails
  <1> QED
    BY <1>1, <1>2, <1>4, <1>5, <1>6, <1>7, <1>8, <1>9, <1>10, InstallerStep

\* A process dies.
LEMMA CrashInv ==
    ASSUME IInv, NEW i \in Installers, Crash(i)
    PROVE  IInv'
  <1>t. dir \in [Dirs -> Directory] /\ installer \in [Installers -> InstallerState]
    BY DEF IInv, TypeOK
  <1>1. dir' \in [Dirs -> Directory]
    BY <1>t, DirNames, PackageFacts DEF Crash
  <1>2. installer' \in [Installers -> InstallerState]
    BY <1>t DEF Crash, Goto, InstallerState
  <1>3. /\ installer[i].pc \notin {"new", "installed", "error", "dead"}
        /\ installer'[i].pc = "dead" /\ installer'[i].named = installer[i].named
        /\ dir'[Live] = dir[Live]
        /\ dir'[Temporary(i)] = dir[Temporary(i)]
        /\ dir'[Backup(i)] = dir[Backup(i)]
    BY <1>t, DirNames DEF Crash, Goto, InstallerState
  <1>4. \A j \in Installers \ {i} : /\ installer'[j] = installer[j]
                                      /\ dir'[Temporary(j)] = dir[Temporary(j)]
                                      /\ dir'[Backup(j)] = dir[Backup(j)]
    BY <1>t, DirNames DEF Crash, Goto
  <1>5. LiveIsWhole'
    BY <1>3, PackageFacts DEF Crash, IInv, LiveIsWhole, Built, BuiltBy, Aside, AsideBy, Versions
  <1>6. BuiltBy(i)'
    BY <1>3, PackageFacts DEF Crash, IInv, Built, BuiltBy, AfterManifest
  <1>7. AsideBy(i)'
    BY <1>3, PackageFacts DEF Crash, IInv, LiveIsWhole, Aside, AsideBy, AfterManifest
  <1>8. Spare'
    BY <1>3, <1>4, <1>5, PackageFacts DEF IInv, Spare, Holds, LiveIsWhole
  <1>9. Owed'
    BY <1>3, <1>4, PackageFacts DEF IInv, Owed, Owes, Aside, AsideBy
  <1>10. UNCHANGED discoverer
    BY DEF Crash
  <1> QED
    BY <1>1, <1>2, <1>4, <1>5, <1>6, <1>7, <1>8, <1>9, <1>10, InstallerStep

\* What was moved aside is removed, or some of it.
LEMMA CleanupInv ==
    ASSUME IInv, NEW i \in Installers, Cleanup(i)
    PROVE  IInv'
  <1>p. PICK left \in Remains(dir[Backup(i)]) : dir' = [dir EXCEPT ![Backup(i)] = left]
    BY DEF Cleanup
  <1>q. left \in Directory
    BY <1>p, DirNames, RemainsType DEF IInv, TypeOK
  <1>t. dir \in [Dirs -> Directory] /\ installer \in [Installers -> InstallerState]
    BY DEF IInv, TypeOK
  <1>1. dir' \in [Dirs -> Directory]
    BY <1>t, <1>p, <1>q, DirNames DEF Cleanup
  <1>2. installer' \in [Installers -> InstallerState]
    BY <1>t DEF Cleanup, Goto, InstallerState
  <1>3. /\ installer[i].pc = "cleanup"
        /\ installer'[i].pc = "load" /\ installer'[i].named = installer[i].named
        /\ dir'[Live] = dir[Live]
        /\ dir'[Temporary(i)] = dir[Temporary(i)]
        /\ dir'[Backup(i)] = left
    BY <1>t, DirNames, <1>p DEF Cleanup, Goto, InstallerState
  <1>4. \A j \in Installers \ {i} : /\ installer'[j] = installer[j]
                                      /\ dir'[Temporary(j)] = dir[Temporary(j)]
                                      /\ dir'[Backup(j)] = dir[Backup(j)]
    BY <1>t, DirNames, <1>p DEF Cleanup, Goto
  <1>r. left # None => dir[Backup(i)] # None
    BY <1>p DEF Remains
  <1>5. LiveIsWhole'
    BY <1>3, PackageFacts DEF Cleanup, IInv, LiveIsWhole, Built, BuiltBy, Aside, AsideBy, Versions
  <1>6. BuiltBy(i)'
    BY <1>3, PackageFacts DEF Cleanup, IInv, Built, BuiltBy, AfterManifest
  <1>7. AsideBy(i)'
    BY <1>3, PackageFacts DEF Cleanup, IInv, LiveIsWhole, Aside, AsideBy, AfterManifest
  <1>8. Spare'
    BY <1>3, <1>4, <1>5, PackageFacts DEF IInv, Spare, Holds, LiveIsWhole
  <1>9. Owed'
    BY <1>3, <1>4, <1>r DEF IInv, Owed, Owes, Aside, AsideBy
  <1>10. UNCHANGED discoverer
    BY DEF Cleanup
  <1> QED
    BY <1>1, <1>2, <1>4, <1>5, <1>6, <1>7, <1>8, <1>9, <1>10, InstallerStep

\* The temporary directory is removed, or some of it.
LEMMA FailInv ==
    ASSUME IInv, NEW i \in Installers, Fail(i)
    PROVE  IInv'
  <1>p. PICK left \in Remains(dir[Temporary(i)]) : dir' = [dir EXCEPT ![Temporary(i)] = left]
    BY DEF Fail
  <1>q. left \in Directory
    BY <1>p, DirNames, RemainsType DEF IInv, TypeOK
  <1>t. dir \in [Dirs -> Directory] /\ installer \in [Installers -> InstallerState]
    BY DEF IInv, TypeOK
  <1>1. dir' \in [Dirs -> Directory]
    BY <1>t, <1>p, <1>q, DirNames DEF Fail
  <1>2. installer' \in [Installers -> InstallerState]
    BY <1>t DEF Fail, Goto, InstallerState
  <1>3. /\ installer[i].pc = "fail"
        /\ installer'[i].pc = "error" /\ installer'[i].named = installer[i].named
        /\ dir'[Live] = dir[Live]
        /\ dir'[Temporary(i)] = left
        /\ dir'[Backup(i)] = dir[Backup(i)]
    BY <1>t, DirNames, <1>p DEF Fail, Goto, InstallerState
  <1>4. \A j \in Installers \ {i} : /\ installer'[j] = installer[j]
                                      /\ dir'[Temporary(j)] = dir[Temporary(j)]
                                      /\ dir'[Backup(j)] = dir[Backup(j)]
    BY <1>t, DirNames, <1>p DEF Fail, Goto
  <1>5. LiveIsWhole'
    BY <1>3, PackageFacts DEF Fail, IInv, LiveIsWhole, Built, BuiltBy, Aside, AsideBy, Versions
  <1>6. BuiltBy(i)'
    BY <1>3, PackageFacts DEF Fail, IInv, Built, BuiltBy, AfterManifest
  <1>7. AsideBy(i)'
    BY <1>3, PackageFacts DEF Fail, IInv, LiveIsWhole, Aside, AsideBy, AfterManifest
  <1>8. Spare'
    BY <1>3, <1>4, <1>5, PackageFacts DEF IInv, Spare, Holds, LiveIsWhole
  <1>9. Owed'
    BY <1>3, <1>4, PackageFacts DEF IInv, Owed, Owes, Aside, AsideBy
  <1>10. UNCHANGED discoverer
    BY DEF Fail
  <1> QED
    BY <1>1, <1>2, <1>4, <1>5, <1>6, <1>7, <1>8, <1>9, <1>10, InstallerStep

\* The executable is created, then written to the end.
LEMMA CopyExecutableInv ==
    ASSUME IInv, NEW i \in Installers, CopyExecutable(i)
    PROVE  IInv'
  <1>t. dir \in [Dirs -> Directory] /\ installer \in [Installers -> InstallerState]
    BY DEF IInv, TypeOK
  <1>1. installer[i].pc = "executable" /\ dir[Temporary(i)] # None
    BY DEF CopyExecutable, IInv, Built, BuiltBy
  <1>2. PICK v \in {"partial", i} :
            /\ dir' = [dir EXCEPT ![Temporary(i)].executable = v]
            /\ \/ v = "partial" /\ UNCHANGED installer
               \/ v = i /\ installer' = [installer EXCEPT ![i].pc = "manifest"]
    BY DEF CopyExecutable, Goto
  <1>3. v \in File
    BY <1>2 DEF File, Versions
  <1>4. dir' \in [Dirs -> Directory]
    BY <1>t, <1>1, <1>2, <1>3, DirNames DEF Directory
  <1>5. installer' \in [Installers -> InstallerState]
    BY <1>t, <1>2 DEF InstallerState, AfterManifest
  <1>6. /\ installer'[i].named = installer[i].named
        /\ \/ v = "partial" /\ installer'[i].pc = "executable"
           \/ v = i /\ installer'[i].pc = "manifest"
    BY <1>t, <1>1, <1>2 DEF InstallerState
  <1>7. /\ dir'[Live] = dir[Live]
        /\ dir'[Backup(i)] = dir[Backup(i)]
        /\ dir'[Temporary(i)] = [dir[Temporary(i)] EXCEPT !.executable = v]
        /\ dir'[Temporary(i)] \in Directory \ {None}
    <2>1. dir[Temporary(i)] \in [executable : File, manifest : File]
      BY <1>t, <1>1, DirNames DEF Directory
    <2>2. [dir[Temporary(i)] EXCEPT !.executable = v] \in [executable : File, manifest : File]
      BY <2>1, <1>3
    <2> QED
      BY <1>t, <1>2, <2>2, DirNames, NamesAssumption DEF Directory
  <1>8. \A j \in Installers \ {i} : /\ installer'[j] = installer[j]
                                      /\ dir'[Temporary(j)] = dir[Temporary(j)]
                                      /\ dir'[Backup(j)] = dir[Backup(j)]
    BY <1>t, <1>2, DirNames
  <1>9. BuiltBy(i)'
    BY <1>t, <1>1, <1>6, <1>7, DirNames DEF BuiltBy, Directory
  <1>10. LiveIsWhole' /\ AsideBy(i)'
    BY <1>1, <1>6, <1>7 DEF IInv, LiveIsWhole, Aside, AsideBy, AfterManifest
  <1>11. Spare'
    BY <1>1, <1>6, <1>7, <1>8 DEF IInv, Spare, Holds, AfterManifest
  <1>12. Owed'
    BY <1>1, <1>6, <1>7, <1>8 DEF IInv, Owed, Owes, AfterManifest
  <1>13. UNCHANGED discoverer
    BY DEF CopyExecutable
  <1> QED
    BY <1>4, <1>5, <1>8, <1>9, <1>10, <1>11, <1>12, <1>13, InstallerStep

\* The manifest is created, then written: the package is complete.
LEMMA WriteManifestInv ==
    ASSUME IInv, NEW i \in Installers, WriteManifest(i)
    PROVE  IInv'
  <1>t. dir \in [Dirs -> Directory] /\ installer \in [Installers -> InstallerState]
    BY DEF IInv, TypeOK
  <1>1. installer[i].pc = "manifest" /\ dir[Temporary(i)] # None
    BY DEF WriteManifest, IInv, Built, BuiltBy
  <1>2. PICK v \in {"partial", i} :
            /\ dir' = [dir EXCEPT ![Temporary(i)].manifest = v]
            /\ \/ v = "partial" /\ UNCHANGED installer
               \/ v = i /\ installer' = [installer EXCEPT ![i].pc = AfterManifest(i)]
    BY DEF WriteManifest, Goto
  <1>3. v \in File
    BY <1>2 DEF File, Versions
  <1>4. dir' \in [Dirs -> Directory]
    BY <1>t, <1>1, <1>2, <1>3, DirNames DEF Directory
  <1>5. installer' \in [Installers -> InstallerState]
    BY <1>t, <1>2 DEF InstallerState, AfterManifest
  <1>6. /\ installer'[i].named = installer[i].named
        /\ \/ v = "partial" /\ installer'[i].pc = "manifest"
           \/ v = i /\ installer'[i].pc = AfterManifest(i)
    BY <1>t, <1>1, <1>2 DEF InstallerState
  <1>7. /\ dir'[Live] = dir[Live]
        /\ dir'[Backup(i)] = dir[Backup(i)]
        /\ dir'[Temporary(i)] = [dir[Temporary(i)] EXCEPT !.manifest = v]
        /\ dir'[Temporary(i)] \in Directory \ {None}
    <2>1. dir[Temporary(i)] \in [executable : File, manifest : File]
      BY <1>t, <1>1, DirNames DEF Directory
    <2>2. [dir[Temporary(i)] EXCEPT !.manifest = v] \in [executable : File, manifest : File]
      BY <2>1, <1>3
    <2> QED
      BY <1>t, <1>2, <2>2, DirNames, NamesAssumption DEF Directory
  <1>8. \A j \in Installers \ {i} : /\ installer'[j] = installer[j]
                                      /\ dir'[Temporary(j)] = dir[Temporary(j)]
                                      /\ dir'[Backup(j)] = dir[Backup(j)]
    BY <1>t, <1>2, DirNames
  <1>9. BuiltBy(i)'
    <2>1. dir[Temporary(i)].executable = i
      BY <1>1 DEF IInv, Built, BuiltBy
    <2>2. dir[Temporary(i)] \in [executable : File, manifest : File]
      BY <1>t, <1>1, DirNames DEF Directory
    <2>3. v = i => dir'[Temporary(i)] = Package(i)
      BY <2>1, <2>2, <1>7 DEF Package
    <2>4. dir'[Temporary(i)].executable = i
      BY <2>1, <2>2, <1>7
    <2> QED
      BY <2>3, <2>4, <1>6, <1>7 DEF BuiltBy, AfterManifest
  <1>10. LiveIsWhole' /\ AsideBy(i)'
    BY <1>1, <1>6, <1>7 DEF IInv, LiveIsWhole, Aside, AsideBy, AfterManifest
  <1>11. Spare'
    BY <1>1, <1>6, <1>7, <1>8 DEF IInv, Spare, Holds, AfterManifest
  <1>12. Owed'
    BY <1>1, <1>6, <1>7, <1>8 DEF IInv, Owed, Owes, AfterManifest
  <1>13. UNCHANGED discoverer
    BY DEF WriteManifest
  <1> QED
    BY <1>4, <1>5, <1>8, <1>9, <1>10, <1>11, <1>12, <1>13, InstallerStep

\* A whole package becomes live again, or the error names the directory.
LEMMA RestoreInv ==
    ASSUME IInv, NEW i \in Installers, NEW works \in BOOLEAN, Restore(i, works)
    PROVE  IInv'
  <1> DEFINE restored == works /\ dir[Live] = None
  <1>t. dir \in [Dirs -> Directory] /\ installer \in [Installers -> InstallerState]
    BY DEF IInv, TypeOK
  <1>1. /\ installer[i].pc = "restore" /\ UNCHANGED discoverer
        /\ installer' = [installer EXCEPT ![i].pc = "fail", ![i].named = ~restored]
        /\ dir' = IF restored
                  THEN [dir EXCEPT ![Live] = dir[Backup(i)], ![Backup(i)] = None] ELSE dir
    BY DEF Restore
  <1>2. restored \in BOOLEAN
    OBVIOUS
  <1>3. IsWhole(dir[Backup(i)]) /\ dir[Backup(i)] # None
    BY <1>1 DEF IInv, Aside, AsideBy
  <1> HIDE DEF restored
  <1>4. dir' \in [Dirs -> Directory] /\ installer' \in [Installers -> InstallerState]
    <2>1. dir[Backup(i)] \in Directory /\ None \in Directory
      BY <1>t, DirNames DEF Directory
    <2>2. [dir EXCEPT ![Live] = dir[Backup(i)], ![Backup(i)] = None] \in [Dirs -> Directory]
      BY <1>t, <2>1
    <2>3. dir' \in [Dirs -> Directory]
      BY <1>t, <1>1, <2>2, Zenon
    <2>4. (~restored) \in BOOLEAN
      BY <1>2, Zenon
    <2>5. \A b \in BOOLEAN : [installer EXCEPT ![i].pc = "fail", ![i].named = b]
                              \in [Installers -> InstallerState]
      BY <1>t DEF InstallerState
    <2>6. installer' \in [Installers -> InstallerState]
      BY <1>1, <2>4, <2>5, Zenon
    <2> QED
      BY <2>3, <2>6
  <1>5. installer'[i].pc = "fail" /\ installer'[i].named = ~restored
    BY <1>t, <1>1 DEF InstallerState
  <1>6. \A j \in Installers \ {i} : /\ installer'[j] = installer[j]
                                    /\ dir'[Temporary(j)] = dir[Temporary(j)]
                                    /\ dir'[Backup(j)] = dir[Backup(j)]
    BY <1>t, <1>1, DirNames
  <1>7. CASE restored
    <2>1. dir'[Live] = dir[Backup(i)] /\ dir'[Backup(i)] = None
      BY <1>7, <1>t, <1>1, DirNames
    <2>2. LiveIsWhole' /\ BuiltBy(i)' /\ AsideBy(i)'
      BY <2>1, <1>3, <1>5 DEF LiveIsWhole, BuiltBy, AsideBy
    <2>3. Spare' /\ Owed'
      BY <2>1, <1>3 DEF Spare, Owed
    <2> QED
      BY <2>2, <2>3, <1>1, <1>4, <1>6, InstallerStep
  <1>8. CASE ~restored
    <2>1. dir' = dir
      BY <1>8, <1>1
    <2>2. LiveIsWhole' /\ BuiltBy(i)' /\ AsideBy(i)'
      BY <2>1, <1>5 DEF IInv, LiveIsWhole, BuiltBy, AsideBy
    <2>3. Spare'
      BY <2>1, <1>1, <1>3, <1>5 DEF Spare, Holds
    <2>4. Owed'
      BY <1>8, <1>5 DEF Owed, Owes
    <2> QED
      BY <2>2, <2>3, <2>4, <1>1, <1>4, <1>6, InstallerStep
  <1> QED
    BY <1>7, <1>8

-----------------------------------------------------------------------------
(* The steps of a discoverer *)

\* A step of p that keeps its own part of the invariant keeps the invariant.
LEMMA DiscovererStep ==
    ASSUME IInv, NEW p \in Discoverers, NEW state, UNCHANGED <<dir, installer>>,
           discoverer' = [discoverer EXCEPT ![p] = state],
           state \in DiscovererState,
           state.pc = "executable" => state.manifest \in Versions,
           \A listed \in state.found : {listed.executable, listed.manifest} \subseteq Versions
    PROVE  IInv'
  <1>1. discoverer \in [Discoverers -> DiscovererState]
    BY DEF IInv, TypeOK
  <1>2. discoverer' \in [Discoverers -> DiscovererState]
    BY <1>1
  <1>3. discoverer'[p] = state /\ \A q \in Discoverers \ {p} : discoverer'[q] = discoverer[q]
    BY <1>1
  <1>4. ListedIsWhole'
    BY <1>3 DEF IInv, ListedIsWhole
  <1>5. Read'
    BY <1>3 DEF IInv, Read
  <1>6. (LiveIsWhole /\ Built /\ Aside /\ Spare /\ Owed)'
    BY DEF IInv, LiveIsWhole, Built, BuiltBy, Aside, AsideBy, Spare, Holds, Owed, Owes
  <1>7. TypeOK'
    BY <1>2 DEF IInv, TypeOK
  <1> QED
    BY <1>4, <1>5, <1>6, <1>7 DEF IInv

\* Listing the root, and coming to the end of the list, read no file.
LEMMA ReadDirInv ==
    ASSUME IInv, NEW p \in Discoverers, ReadDir(p) \/ Discovered(p)
    PROVE  IInv'
  <1>1. discoverer \in [Discoverers -> DiscovererState]
    BY DEF IInv, TypeOK
  <1>2. CASE ReadDir(p)
    <2> DEFINE state == [discoverer[p] EXCEPT !.pc = "loading",
                                              !.entries = {d \in Dirs : dir[d] # None}]
    <2>1. discoverer' = [discoverer EXCEPT ![p] = state] /\ UNCHANGED <<dir, installer>>
      BY <1>2 DEF ReadDir
    <2>2. state \in DiscovererState /\ state.pc = "loading" /\ state.found = discoverer[p].found
      BY <1>1 DEF DiscovererState
    <2> HIDE DEF state
    <2> QED
      BY <2>1, <2>2, DiscovererStep DEF IInv, ListedIsWhole
  <1>3. CASE Discovered(p)
    <2> DEFINE state == [discoverer[p] EXCEPT !.pc = "listed"]
    <2>1. discoverer' = [discoverer EXCEPT ![p] = state] /\ UNCHANGED <<dir, installer>>
      BY <1>3 DEF Discovered
    <2>2. state \in DiscovererState /\ state.pc = "listed" /\ state.found = discoverer[p].found
      BY <1>1 DEF DiscovererState
    <2> HIDE DEF state
    <2> QED
      BY <2>1, <2>2, DiscovererStep DEF IInv, ListedIsWhole
  <1> QED
    BY <1>2, <1>3

\* Looking for a manifest reads none.
LEMMA FindManifestInv ==
    ASSUME IInv, NEW p \in Discoverers, NEW d \in Dirs, FindManifest(p, d)
    PROVE  IInv'
  <1>1. discoverer \in [Discoverers -> DiscovererState] /\ discoverer[p].pc = "loading"
    BY DEF IInv, TypeOK, FindManifest
  <1>2. PICK pc \in {"manifest", "loading"} :
            discoverer' = [discoverer EXCEPT ![p].entries = @ \ {d}, ![p].at = d, ![p].pc = pc]
    BY <1>1 DEF FindManifest
  <1> DEFINE state == [discoverer[p] EXCEPT !.entries = @ \ {d}, !.at = d, !.pc = pc]
  <1>3. discoverer' = [discoverer EXCEPT ![p] = state] /\ UNCHANGED <<dir, installer>>
    BY <1>1, <1>2 DEF FindManifest
  <1>4. state \in DiscovererState /\ state.pc = pc /\ state.found = discoverer[p].found
    BY <1>1, <1>2 DEF DiscovererState
  <1> HIDE DEF state
  <1>5. state.pc # "executable"
    BY <1>2, <1>4
  <1>6. \A listed \in state.found : {listed.executable, listed.manifest} \subseteq Versions
    BY <1>4 DEF IInv, ListedIsWhole
  <1> QED
    BY <1>3, <1>4, <1>5, <1>6, DiscovererStep

\* A manifest that can be read is one of a version.
LEMMA LoadManifestInv ==
    ASSUME IInv, NEW p \in Discoverers, LoadManifest(p)
    PROVE  IInv'
  <1> DEFINE at == discoverer[p].at
             readable == dir[at] # None /\ dir[at].manifest \notin {None, "partial"}
  <1>1. discoverer \in [Discoverers -> DiscovererState] /\ dir \in [Dirs -> Directory]
    BY DEF IInv, TypeOK
  <1>2. at \in Dirs
    BY <1>1 DEF DiscovererState
  <1>3. readable => dir[at].manifest \in Versions
    BY <1>1, <1>2 DEF Directory, File
  <1>4. PICK pc \in {"executable", "error"}, manifest \in File :
            /\ discoverer' = [discoverer EXCEPT ![p].pc = pc, ![p].manifest = manifest]
            /\ pc = "executable" => manifest \in Versions
    <2>1. CASE readable
      BY <2>1, <1>3 DEF LoadManifest, File
    <2>2. CASE ~readable
      BY <2>2 DEF LoadManifest, File
    <2> QED
      BY <2>1, <2>2
  <1> DEFINE state == [discoverer[p] EXCEPT !.pc = pc, !.manifest = manifest]
  <1>5. discoverer' = [discoverer EXCEPT ![p] = state] /\ UNCHANGED <<dir, installer>>
    BY <1>1, <1>4 DEF LoadManifest
  <1>6. /\ state \in DiscovererState /\ state.pc = pc /\ state.manifest = manifest
        /\ state.found = discoverer[p].found
    BY <1>1, <1>4 DEF DiscovererState
  <1> HIDE DEF state
  <1>7. state.pc = "executable" => state.manifest \in Versions
    BY <1>4, <1>6
  <1>8. \A listed \in state.found : {listed.executable, listed.manifest} \subseteq Versions
    BY <1>6 DEF IInv, ListedIsWhole
  <1> QED
    BY <1>5, <1>6, <1>7, <1>8, DiscovererStep

\* Only the live directory is listed; its executable is whole.
LEMMA ResolveExecutableInv ==
    ASSUME IInv, NEW p \in Discoverers, ResolveExecutable(p)
    PROVE  IInv'
  <1> DEFINE at == discoverer[p].at
             resolved == dir[at] # None /\ dir[at].executable # None /\ at = Live
             entry == [executable |-> dir[at].executable, manifest |-> discoverer[p].manifest]
  <1>1. discoverer \in [Discoverers -> DiscovererState] /\ dir \in [Dirs -> Directory]
    BY DEF IInv, TypeOK
  <1>2. discoverer[p].pc = "executable" /\ discoverer[p].manifest \in Versions
    BY DEF ResolveExecutable, IInv, Read
  <1>3. resolved => dir[at].executable \in Versions
    BY <1>1, DirNames, PackageFacts DEF IInv, LiveIsWhole
  <1>4. PICK pc \in {"loading", "error"}, found \in SUBSET [executable : File, manifest : File] :
            /\ discoverer' = [discoverer EXCEPT ![p].pc = pc, ![p].manifest = None,
                                                ![p].found = found]
            /\ \A listed \in found : {listed.executable, listed.manifest} \subseteq Versions
    <2>1. discoverer[p].found \in SUBSET [executable : File, manifest : File]
      BY <1>1 DEF DiscovererState
    <2>2. \A listed \in discoverer[p].found :
              {listed.executable, listed.manifest} \subseteq Versions
      BY DEF IInv, ListedIsWhole
    <2>3. CASE resolved
      <3>1. entry \in [executable : File, manifest : File]
        BY <2>3, <1>2, <1>3 DEF File
      <3>2. {entry.executable, entry.manifest} \subseteq Versions
        BY <2>3, <1>2, <1>3
      <3>3. discoverer' = [discoverer EXCEPT ![p].pc = "loading", ![p].manifest = None,
                                             ![p].found = discoverer[p].found \cup {entry}]
        BY <2>3, <1>1 DEF ResolveExecutable
      <3> HIDE DEF entry
      <3>4. discoverer[p].found \cup {entry} \in SUBSET [executable : File, manifest : File]
        BY <3>1, <2>1
      <3>5. \A listed \in discoverer[p].found \cup {entry} :
                {listed.executable, listed.manifest} \subseteq Versions
        BY <3>2, <2>2
      <3> QED
        BY <3>3, <3>4, <3>5
    <2>4. CASE ~resolved
      <3>1. discoverer' = [discoverer EXCEPT ![p].pc = "error", ![p].manifest = None,
                                             ![p].found = discoverer[p].found]
        BY <2>4, <1>1 DEF ResolveExecutable
      <3> QED
        BY <3>1, <2>1, <2>2
    <2> QED
      BY <2>3, <2>4
  <1> DEFINE state == [discoverer[p] EXCEPT !.pc = pc, !.manifest = None, !.found = found]
  <1>5. discoverer' = [discoverer EXCEPT ![p] = state] /\ UNCHANGED <<dir, installer>>
    BY <1>1, <1>4 DEF ResolveExecutable
  <1>6. state \in DiscovererState /\ state.pc = pc /\ state.found = found
    BY <1>1, <1>4 DEF DiscovererState, File
  <1> HIDE DEF state
  <1>7. state.pc # "executable"
    BY <1>4, <1>6
  <1>8. \A listed \in state.found : {listed.executable, listed.manifest} \subseteq Versions
    BY <1>4, <1>6
  <1> QED
    BY <1>5, <1>6, <1>7, <1>8, DiscovererStep

-----------------------------------------------------------------------------
(* The invariant holds always *)

\* Every step keeps the invariant.
LEMMA NextInv == IInv /\ [Next]_vars => IInv'
  <1> SUFFICES ASSUME IInv, [Next]_vars PROVE IInv'
    OBVIOUS
  <1>1. ASSUME NEW i \in Installers, Install(i) PROVE IInv'
    <2>1. CASE MakeTemporary(i)
      BY <2>1, MakeTemporaryInv
    <2>2. CASE CopyExecutable(i)
      BY <2>2, CopyExecutableInv
    <2>3. CASE WriteManifest(i)
      BY <2>3, WriteManifestInv
    <2>4. CASE Deactivate(i)
      BY <2>4, DeactivateInv
    <2>5. CASE Activate(i)
      BY <2>5, ActivateInv
    <2>6. CASE ActivateFails(i)
      BY <2>6, ActivateFailsInv
    <2>7. ASSUME NEW works \in BOOLEAN, Restore(i, works) PROVE IInv'
      BY <2>7, RestoreInv
    <2>8. CASE Cleanup(i)
      BY <2>8, CleanupInv
    <2>9. CASE Load(i)
      BY <2>9, LoadInv
    <2>10. CASE StepFails(i)
      BY <2>10, StepFailsInv
    <2>11. CASE Fail(i)
      BY <2>11, FailInv
    <2>12. CASE Crash(i)
      BY <2>12, CrashInv
    <2> QED
      BY <1>1, <2>1, <2>2, <2>3, <2>4, <2>5, <2>6, <2>7, <2>8, <2>9, <2>10, <2>11, <2>12
         DEF Install
  <1>2. ASSUME NEW p \in Discoverers, Discover(p) PROVE IInv'
    <2>1. CASE ReadDir(p) \/ Discovered(p)
      BY <2>1, ReadDirInv
    <2>2. ASSUME NEW d \in Dirs, FindManifest(p, d) PROVE IInv'
      BY <2>2, FindManifestInv
    <2>3. CASE LoadManifest(p)
      BY <2>3, LoadManifestInv
    <2>4. CASE ResolveExecutable(p)
      BY <2>4, ResolveExecutableInv
    <2> QED
      BY <1>2, <2>1, <2>2, <2>3, <2>4 DEF Discover
  <1>3. CASE UNCHANGED vars
    BY <1>3 DEF vars, IInv, TypeOK, LiveIsWhole, ListedIsWhole, Built, BuiltBy, Aside, AsideBy,
                Read, Spare, Holds, Owed, Owes
  <1> QED
    BY <1>1, <1>2, <1>3 DEF Next

\* The invariant holds in every state of every behaviour.
LEMMA Invariance == Spec => []IInv
  <1> QED
    BY InitInv, NextInv, PTL DEF Spec

\* A package is installed when the live one is whole, or one that was moved aside.
LEMMA InstalledFacts ==
    Installed # {} <=> IsWhole(dir[Live]) \/ \E i \in Installers : IsWhole(dir[Backup(i)])
  BY DirNames DEF Installed

\* The same of the state after a step.
LEMMA InstalledFactsNext ==
    Installed' # {} <=> IsWhole(dir'[Live]) \/ \E i \in Installers : IsWhole(dir'[Backup(i)])
  BY DirNames DEF Installed

\* No step takes the last whole package away: a removal has another one to spare.
LEMMA StepLosesNothing ==
    ASSUME IInv, Next, Installed # {}
    PROVE  Installed' # {}
  <1>t. dir \in [Dirs -> Directory]
    BY DEF IInv, TypeOK
  <1>s. ASSUME dir'[Live] = dir[Live], \A j \in Installers : dir'[Backup(j)] = dir[Backup(j)]
        PROVE  Installed' # {}
    BY <1>s, InstalledFacts, InstalledFactsNext
  <1>1. ASSUME NEW i \in Installers, Install(i) PROVE Installed' # {}
    <2>1. CASE MakeTemporary(i) \/ CopyExecutable(i) \/ WriteManifest(i) \/ Fail(i)
      <3>1. \A d \in Dirs \ {Temporary(i)} : dir'[d] = dir[d]
        BY <2>1, <1>t DEF MakeTemporary, CopyExecutable, WriteManifest, Fail
      <3> QED
        BY <3>1, <1>s, DirNames
    <2>2. CASE ActivateFails(i) \/ Load(i) \/ StepFails(i) \/ Crash(i)
      BY <2>2, <1>s DEF ActivateFails, Load, StepFails, Crash
    <2>3. CASE Deactivate(i)
      <3>1. dir'[Backup(i)] = dir[Live] /\ IsWhole(dir[Live])
        BY <2>3, <1>t, DirNames DEF Deactivate, IInv, LiveIsWhole
      <3> QED
        BY <3>1, InstalledFactsNext
    <2>4. CASE Activate(i)
      <3>1. dir'[Live] = Package(i)
        BY <2>4, <1>t, DirNames DEF Activate, IInv, Built, BuiltBy
      <3> QED
        BY <3>1, PackageFacts, InstalledFactsNext DEF Versions
    <2>5. ASSUME NEW works \in BOOLEAN, Restore(i, works) PROVE Installed' # {}
      <3>1. IsWhole(dir[Backup(i)])
        BY <2>5 DEF Restore, IInv, Aside, AsideBy
      <3>2. dir' = [dir EXCEPT ![Live] = dir[Backup(i)], ![Backup(i)] = None] \/ dir' = dir
        BY <2>5 DEF Restore
      <3>3. dir'[Live] = dir[Backup(i)] \/ dir' = dir
        BY <3>2, <1>t, DirNames
      <3> QED
        BY <3>1, <3>3, <1>s, InstalledFactsNext
    <2>6. CASE Cleanup(i)
      <3>1. installer[i].pc = "cleanup" /\ \A d \in Dirs \ {Backup(i)} : dir'[d] = dir[d]
        BY <2>6, <1>t DEF Cleanup
      <3>2. CASE dir[Live] # None
        BY <3>1, <3>2, DirNames, InstalledFactsNext DEF IInv, LiveIsWhole
      <3>3. CASE dir[Live] = None
        <4>1. PICK j \in Installers : Holds(j)
          BY <3>1, <3>3 DEF IInv, Spare
        <4>2. dir'[Backup(j)] = dir[Backup(j)]
          BY <3>1, <4>1, DirNames DEF Holds
        <4> QED
          BY <4>1, <4>2, InstalledFactsNext DEF Holds
      <3> QED
        BY <3>2, <3>3
    <2> QED
      BY <1>1, <2>1, <2>2, <2>3, <2>4, <2>5, <2>6 DEF Install
  <1>2. ASSUME NEW p \in Discoverers, Discover(p) PROVE Installed' # {}
    <2>1. UNCHANGED dir
      BY <1>2 DEF Discover, ReadDir, Discovered, LoadManifest, ResolveExecutable, FindManifest
    <2> QED
      BY <2>1, <1>s
  <1> QED
    BY <1>1, <1>2 DEF Next

-----------------------------------------------------------------------------
(* The theorems *)

\* However many installs overlap, fail or die, installManaged never leaves a package
\* under the provider's name that is not whole.
THEOREM LivePackageIsWhole == Spec => []LiveIsWhole
  <1>1. IInv => LiveIsWhole
    BY DEF IInv
  <1> QED
    BY <1>1, Invariance, PTL

\* DiscoverInstallations never lists a file that is not written to the end.
THEOREM ListedFilesAreWhole == Spec => []ListedIsWhole
  <1>1. IInv => ListedIsWhole
    BY DEF IInv
  <1> QED
    BY <1>1, Invariance, PTL

\* Once all installs have returned, a package that was installed is live, or an error of
\* installManaged names the directory that holds it.
THEOREM FailedInstallsAreUndone == Spec => []FailuresAreUndone
  <1>1. IInv => FailuresAreUndone
    <2> SUFFICES ASSUME IInv, Quiet, Installed # {}, dir[Live] = None
                 PROVE  \E i \in Installers : installer[i].named
      BY DEF FailuresAreUndone
    <2>1. PICK i \in Installers : IsWhole(dir[Backup(i)])
      BY InstalledFacts, PackageFacts
    <2>2. dir[Backup(i)] # None
      BY <2>1, PackageFacts
    <2>3. PICK j \in Installers : Owes(j)
      BY <2>2 DEF IInv, Owed
    <2> QED
      BY <2>3 DEF Owes, Quiet
  <1> QED
    BY <1>1, Invariance, PTL

\* No step of any process, a removal by RemoveAll included, takes the last whole package
\* away.
THEOREM InstalledPackagesSurvive == Spec => NothingIsLost
  <1>1. IInv /\ [Next]_vars => [Installed # {} => Installed' # {}]_vars
    BY StepLosesNothing
  <1> QED
    BY <1>1, Invariance, PTL DEF Spec, NothingIsLost
=============================================================================
