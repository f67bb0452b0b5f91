--------------------------- MODULE MC_MountMerge ---------------------------
(* Instantiates MountMerge for TLC.  Paths: "/a" and "/c" are host sources  *)
(* that exist; "/b/" and "/b/." clean to "/b"; "a" is relative.            *)
EXTENDS MountMerge

MC_AbsolutePaths ==
  {"/", "/a", "/b", "/b/", "/b/.", "/c", "/dev/shm", "/etc/hosts"}
MC_UserSources == {"/a", "/c"}

\* Valid and invalid binds, one of them onto /etc/hosts.
MC_VolumeInputs ==
  { <<"/a", "/b">>, <<"/a", "/b/", "ro">>, <<"/a", "/b/.", "Z">>,
    <<"", "/a", "/b">>, <<"/a", "/b", "">>, <<"/a", "/">>, <<"a", "/b">>,
    <<"/a", "/b", "bogus">>, <<"/a", "ro">>, <<"/a">>, <<"">>,
    <<"/a", "/etc/hosts">> }

\* A bind with an empty middle field.
MC_VolumeInputsEmptyField == {<<"/a", "", "/b">>}

\* The same, with a bind onto /dev/shm.
MC_VolumeInputsShm == {<<"/a", "/b">>, <<"/a", "/dev/shm">>}

Bind == <<"type", "bind">>
\* Valid and invalid --mount strings; one binds /etc/hosts from "/c".
MC_MountInputs ==
  { <<Bind, <<"src", "/a">>, <<"dst", "/b/">>, <<"ro", "true">>>>,
    <<Bind, <<"src", "/a">>, <<"dst", "/b">>, <<"propagation", "rshared">>,
      <<"ro", "false">>>>,
    <<Bind, <<"src", "/c">>, <<"dst", "/etc/hosts">>>>,
    <<<<"type", "tmpfs">>, <<"src", "/a">>, <<"dst", "/b">>>>,
    <<Bind, <<"src", "/a">>, <<"dst", "/b">>, <<"ro", "maybe">>>>,
    <<<<"src", "/a">>, <<"dst", "/b">>, <<"bogus", "x">>>>,
    <<<<"type", "squashfs">>, <<"src", "/a">>, <<"dst", "/b">>,
      <<"selinux", "z">>, <<"readonly">>>> }

\* A --mount with a bare ro item.
MC_MountInputsBareRo == {<<Bind, <<"src", "/a">>, <<"dst", "/b">>, <<"ro">>>>}

\* The default template: a system container's has its own /dev/shm tmpfs.
ProcMount == Mnt("/proc", "proc", "proc", <<"nosuid">>)
TmpfsShm == Mnt("/dev/shm", "shm", "tmpfs", <<"nosuid", "size=65536k">>)
MC_TemplateMounts == [b \in BOOLEAN |-> IF b THEN <<ProcMount, TmpfsShm>>
                                             ELSE <<ProcMount>>]

\* A template without /dev/shm for either kind of container.
MC_PlainTemplate == [b \in BOOLEAN |-> <<ProcMount>>]

\* The ipc modes that reuse an existing shm.
MC_SharedIpcInputs == {"host", "container"}

MC_IpcInputs == {"unset", "shareable", "none", "host", "container"}
MC_FileSets == {{}, {"/etc/hosts"}, NetFileSet}
MC_ShmSizes == {0, 1048576}
====
