----------------------------- MODULE MC_Devices -----------------------------
(***************************************************************************)
(* A small host file tree for Devices:                                     *)
(*   /dev: null (chr), sda (blk), console (chr, skip list), pts/0 (skip    *)
(*         list), shm (skip list, empty), bsg/0:0:0:0 (':' name), snd/pcm, *)
(*         log (not a device)                                              *)
(*   /srv: a/b/sdb, two levels of directories below /srv                   *)
(* With MAX_PATH_DEPTH = 2, scanning /srv is too deep and /srv/a is not.   *)
(***************************************************************************)
EXTENDS Devices

MC_Fs ==
    <<"dev">> :> "dir" @@ <<"dev", "null">> :> "chr" @@ <<"dev", "sda">> :> "blk"
    @@ <<"dev", "console">> :> "chr" @@ <<"dev", "pts">> :> "dir"
    @@ <<"dev", "pts", "0">> :> "chr" @@ <<"dev", "shm">> :> "dir"
    @@ <<"dev", "bsg">> :> "dir" @@ <<"dev", "bsg", "0:0:0:0">> :> "chr"
    @@ <<"dev", "snd">> :> "dir" @@ <<"dev", "snd", "pcm">> :> "chr"
    @@ <<"dev", "log">> :> "reg"
    @@ <<"srv">> :> "dir" @@ <<"srv", "a">> :> "dir" @@ <<"srv", "a", "b">> :> "dir"
    @@ <<"srv", "a", "b", "sdb">> :> "blk"

MC_Entries ==
    <<"dev">> :> <<".", "..", "null", "sda", "console", "pts", "shm", "bsg", "snd", "log">>
    @@ <<"dev", "pts">> :> <<".", "..", "0">>
    @@ <<"dev", "shm">> :> <<".", "..">>
    @@ <<"dev", "bsg">> :> <<".", "..", "0:0:0:0">>
    @@ <<"dev", "snd">> :> <<"..", "pcm", ".">>
    @@ <<"srv">> :> <<".", "..", "a">>
    @@ <<"srv", "a">> :> <<"b", ".", "..">>
    @@ <<"srv", "a", "b">> :> <<".", "..", "sdb">>

Null == <<"dev", "null">>
Sda == <<"dev", "sda">>
Missing == <<"dev", "nope">>

\* --device entries: [path_on_host, path_in_container, cgroup_permissions].
Dev(h, c, p) == [host |-> h, ctr |-> c, perm |-> p]

DNull == Dev(Null, Null, "rwm")
DSda == Dev(Sda, <<"dev", "xvda">>, "r")
DMissing == Dev(Missing, Missing, "rwm")
DLog == Dev(<<"dev", "log">>, <<"dev", "log">>, "rwm")
DSnd == Dev(<<"dev", "snd">>, <<"dev", "snd">>, "rw")
DBsg == Dev(<<"dev", "bsg">>, <<"dev", "bsg">>, "rwm")
DSrvA == Dev(<<"srv", "a">>, <<"dev", "a">>, "rwm")
DSrv == Dev(<<"srv">>, <<"dev", "s">>, "rwm")
DAll == Dev(<<"dev">>, <<"dev">>, "rwm")
DAllSlash == Dev(<<"dev", "">>, <<"dev">>, "rwm")

MC_DeviceInputs ==
    {<<>>, <<DNull, DAll>>, <<DSnd, DSda>>, <<DAll, DAll>>}
    \cup {<<d>> : d \in {DNull, DSda, DMissing, DLog, DSnd, DBsg, DSrvA, DSrv, DAll}}

MC_DeviceInputsSlash == {<<DAllSlash>>}

MC_DeviceInputsSingles == {<<DNull, DSda>>}

MC_WeightInputs == {<<>>, <<Sda>>, <<Missing>>}

MC_WeightInputsMany == {<<Sda, Null, Sda>>}

MC_ReadBpsInputs == {<<>>, <<Sda>>}

MC_WriteBpsInputs == {<<>>, <<Null>>}

MC_Empty == {<<>>}

MC_TemplateCg == <<>>

==============================================================================
