----------------------------- MODULE PodTemplates -----------------------------
(* The pod template of a dogu as the resource generator builds it: its        *)
(* volumes, and for every container what it mounts.                           *)
(*                                                                            *)
(* The name of a volume is a tuple of the parts it is put together from.  A   *)
(* descriptor volume has a name, a path, and tells whether it is backed up,   *)
(* has a client (the operator's, an unsupported one of the operator's, or one *)
(* of someone else), and has owners that can be parsed and are not root.  An  *)
(* additional mount copies a source (ConfigMap or Secret) into a volume.      *)
EXTENDS GoCollections, FiniteSetsExt

\* The empty string: no prefix of a path, no path inside a volume
Blank == ""

Volume(name, source) == [name |-> name, source |-> source]

Mount(name, path, subPath) ==
    [name |-> name, path |-> path, subPath |-> subPath]

EphemeralData == <<"dogu", "ephemeral">>

DataVolume == <<"dogu", "data">>

\* createStaticVolumes
StaticVolumes ==
    << Volume(<<"dogu-health">>, <<"ConfigMap", "dogu-health">>),
       Volume(EphemeralData, <<"EmptyDir", Blank>>),
       Volume(<<"global-config">>, <<"ConfigMap", "global-config">>),
       Volume(<<"normal-config">>, <<"ConfigMap", "dogu-config">>),
       Volume(<<"sensitive-config">>, <<"Secret", "dogu-config">>),
       Volume(<<"timezone">>, <<"ConfigMap", "operator-config">>) >>

\* getDoguJsonVolumeForDogu
DoguJsonVolume(name) == Volume(<<name, "dogu-json">>, <<"ConfigMap", name>>)

\* createDoguJsonVolumesFromDependencies
DoguJsonVolumes(dogu) ==
    AppendAll([i \in DOMAIN dogu.dependencies |->
        IF dogu.dependencies[i].type = "dogu"
        THEN << DoguJsonVolume(dogu.dependencies[i].name) >> ELSE <<>>])

ImporterPublicKey == <<"ces-importer-public-key-volume">>

HasOperatorClient(v) == v.client \in {"operator", "unsupported"}

\* createDoguVolumes with createVolumeByClient: one volume for everything that
\* is backed up.
DoguVolumes(volumes) ==
    LET onClaim(i) == ~HasOperatorClient(volumes[i]) /\ volumes[i].backup
    IN  AppendAll([i \in DOMAIN volumes |->
            IF HasOperatorClient(volumes[i])
            THEN << Volume(<<volumes[i].name>>, <<"ConfigMap", "of client">>) >>
            ELSE IF onClaim(i) /\ \A j \in 1..(i - 1) : ~onClaim(j)
            THEN << Volume(DataVolume, <<"PersistentVolumeClaim", "dogu">>) >>
            ELSE <<>>])

\* The first of the mounts with its source's name
IsFirst(mounts, i) == \A j \in 1..(i - 1) : mounts[j].name # mounts[i].name

\* Mutated: every source is taken for a ConfigMap.
ConfigMapsOnly(mounts) ==
    AppendAll([i \in DOMAIN mounts |->
        IF IsFirst(mounts, i)
        THEN << Volume(<<mounts[i].name>>, <<"ConfigMap", mounts[i].name>>) >>
        ELSE <<>>])

\* createAdditionalDataVolumes with getVolumeForDataMount: one for each name
AdditionalDataVolumes(mounts) ==
    AppendAll([i \in DOMAIN mounts |->
        IF IsFirst(mounts, i)
        THEN << Volume(<<mounts[i].name>>, <<mounts[i].type, mounts[i].name>>) >>
        ELSE <<>>])

\* CreateVolumes, unless a client is not supported
CreateVolumes(spec, dogu) ==
    StaticVolumes \o DoguJsonVolumes(dogu) \o << DoguJsonVolume("dogu") >>
    \o (IF spec.export
        THEN << Volume(ImporterPublicKey, <<"ConfigMap", "importer">>) >>
        ELSE <<>>)
    \o DoguVolumes(dogu.volumes) \o AdditionalDataVolumes(spec.mounts)

\* createVolumeByClient fails for one of them.
CreateVolumesFails(dogu) ==
    \E v \in Range(dogu.volumes) : v.client = "unsupported"

\* createDoguVolumeMount
DoguVolumeMount(v, prefix) ==
    IF HasOperatorClient(v) THEN Mount(<<v.name>>, <<prefix, v.path>>, Blank)
    ELSE Mount(IF v.backup THEN DataVolume ELSE EphemeralData,
               <<prefix, v.path>>, v.name)

\* createDoguVolumeMountsWithMountPathPrefix
DoguVolumeMounts(dogu, prefix) ==
    {DoguVolumeMount(v, prefix) : v \in Range(dogu.volumes)}

\* createStaticDoguConfigVolumeMounts
ConfigVolumeMounts(prefix) ==
    {Mount(<<"normal-config">>, <<prefix, "normal">>, Blank),
     Mount(<<"sensitive-config">>, <<prefix, "sensitive">>, Blank)}

\* createStaticVolumeMounts
StaticVolumeMounts ==
    {Mount(<<"dogu-health">>, <<Blank, "health">>, Blank),
     Mount(EphemeralData, <<Blank, "state">>, "state"),
     Mount(<<"global-config">>, <<Blank, "global">>, Blank),
     Mount(<<"timezone">>, <<Blank, "timezone">>, "timezone")}
    \cup ConfigVolumeMounts(Blank)

\* createDoguJsonVolumeMountsFromDependencies, and the dogu's own
DoguJsonVolumeMounts(dogu) ==
    {Mount(<<name, "dogu-json">>, <<"json", name>>, Blank) :
        name \in {"dogu"} \cup {d.name : d \in {e \in Range(dogu.dependencies) :
                                                  e.type = "dogu"}}}

\* createVolumeMounts, of the dogu's container
VolumeMounts(dogu) ==
    StaticVolumeMounts \cup DoguJsonVolumeMounts(dogu)
    \cup DoguVolumeMounts(dogu, Blank)

\* createExporterSidecarVolumeMounts
ExporterVolumeMounts(dogu) ==
    {Mount(ImporterPublicKey, <<Blank, "authorized_keys">>, "publicKey")}
    \cup (IF \E v \in Range(dogu.volumes) : v.backup
          THEN {Mount(DataVolume, <<Blank, "data">>, Blank)} ELSE {})

\* hasLocalConfigVolume
HasLocalConfigVolume(dogu) ==
    \E v \in Range(dogu.volumes) : v.name = "localConfig"

\* findVolumeByName: the first volume with this name, if there is one
HasVolume(dogu, name) == \E v \in Range(dogu.volumes) : v.name = name

VolumeByName(dogu, name) ==
    dogu.volumes[Min({i \in DOMAIN dogu.volumes : dogu.volumes[i].name = name})]

Container(image, args, mounts) ==
    [image |-> image, args |-> args, mounts |-> mounts]

\* Mutated: the target is the name of the volume, not its path.
CopiesToName(spec, dogu) ==
    [i \in DOMAIN spec.mounts |->
        [source |-> spec.mounts[i].name,
         target |-> spec.mounts[i].volume,
         subfolder |-> spec.mounts[i].subfolder]]

\* prepareAdditionalMountsAndArgs: what to copy where
CopyArgs(spec, dogu) ==
    [i \in DOMAIN spec.mounts |->
        [source |-> spec.mounts[i].name,
         target |-> VolumeByName(dogu, spec.mounts[i].volume).path,
         subfolder |-> spec.mounts[i].subfolder]]

\* BuildAdditionalMountInitContainer: it copies sources to targets, and mounts
\* both.
AdditionalMountInitContainer(spec, dogu, image) ==
    Container(image, CopyArgs(spec, dogu),
        {Mount(<<m.name>>, <<"datamount", m.name>>, Blank) :
            m \in Range(spec.mounts)}
        \cup DoguVolumeMounts(dogu, "dogumount")
        \cup ConfigVolumeMounts("dogumount"))

\* prepareAdditionalMountsAndArgs fails for a volume the descriptor lacks.
AdditionalMountInitContainerFails(spec, dogu) ==
    \E m \in Range(spec.mounts) : ~HasVolume(dogu, m.volume)

\* getChownInitContainer: volumes of the operator's client are read only.
ChownedVolumes(dogu) ==
    {v \in Range(dogu.volumes) : ~HasOperatorClient(v)}

ChownFails(dogu) == \E v \in ChownedVolumes(dogu) : ~v.owned

\* GetPodTemplate returns an error.
PodTemplateFails(spec, dogu) ==
    \/ CreateVolumesFails(dogu)
    \/ ChownFails(dogu)
    \/ HasLocalConfigVolume(dogu) /\ AdditionalMountInitContainerFails(spec, dogu)

\* GetPodTemplate: generateInitContainers, generateSidecarContainers and the
\* pod spec builder.  The label is the version of the resource, the image the
\* one of the descriptor.
PodTemplate(spec, dogu, image) ==
    LET names == {"dogu"}
            \cup (IF ChownedVolumes(dogu) # {} THEN {"chown"} ELSE {})
            \cup (IF HasLocalConfigVolume(dogu) THEN {"mounts"} ELSE {})
            \cup (IF spec.export THEN {"exporter"} ELSE {})
    IN  [label |-> spec.version, version |-> dogu.version,
         volumes |-> CreateVolumes(spec, dogu),
         containers |-> [n \in names |->
            CASE n = "dogu" -> Container(Blank, <<>>, VolumeMounts(dogu))
              [] n = "chown" -> Container(Blank, <<>>, DoguVolumeMounts(dogu, Blank))
              [] n = "mounts" -> AdditionalMountInitContainer(spec, dogu, image)
              [] n = "exporter" ->
                    Container(Blank, <<>>, ExporterVolumeMounts(dogu))]]

\* The API server accepts a template whose volumes have different names, and
\* whose mounts are mounts of these volumes at different paths.
Accepted(template) ==
    LET names == {v.name : v \in Range(template.volumes)}
    IN  /\ Cardinality(names) = Len(template.volumes)
        /\ \A c \in DOMAIN template.containers :
               LET mounts == template.containers[c].mounts
               IN  /\ {m.name : m \in mounts} \subseteq names
                   /\ Cardinality({m.path : m \in mounts}) = Cardinality(mounts)
=============================================================================
