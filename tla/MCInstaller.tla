------------------------------ MODULE MCInstaller ------------------------------
(***************************************************************************)
(* Installer on a small application: its installer writes the program and  *)
(* an uninstaller, Windows brings a program of its own (iexplore.exe, 35   *)
(* points under Program Files), and a component brings a helper.           *)
(***************************************************************************)
EXTENDS Installer

MCStaging == << "wine", "wine-staging" >>
MCStable == << "wine", "wine-stable" >>
MCUmu == << "proton-umu", "umu" >>
MCVm == << "virtual-machine", "libvirt-qemu" >>
MCFinalVm == << "virtual-machine", "libvirt-qemu-win11" >>

\* a general application: Wine, then the VM of the fallback list
MCGeneralEnv == {MCStaging, MCVm, MCFinalVm}
MCGeneral == << MCStaging, MCVm >>
\* a game: Proton first
MCGameEnv == {MCUmu, MCStaging, MCFinalVm}
MCGame == << MCUmu, MCStaging >>
\* two strategies of the same class
MCWineEnv == {MCStaging, MCStable, MCFinalVm}
MCWine == << MCStaging, MCStable >>

MCExe == {"iexplore", "app", "unins", "helper"}
MCScore == [e \in MCExe |-> CASE e = "iexplore" -> 35 [] e = "app" -> 75
                             [] e = "unins" -> -10 [] e = "helper" -> 20]
MCComponent == {"vcrun2022", "dotnet48", "mf", "d3dcompiler_47", "xact"}
MCComponentExes == [c \in MCComponent |-> IF c = "vcrun2022" THEN {"helper"} ELSE {}]
==============================================================================
