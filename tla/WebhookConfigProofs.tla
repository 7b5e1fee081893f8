------------------------- MODULE WebhookConfigProofs -------------------------
(***************************************************************************)
(* Proofs about the webhook configuration format: what json.Marshal       *)
(* writes for a WebhookConfiguration, json.Unmarshal into the zero value  *)
(* reads back, for every configuration whose strings, ports, lists and    *)
(* feature gates are any values of their Go types, not only the small     *)
(* domains TLC enumerates.                                                *)
(***************************************************************************)
EXTENDS WebhookConfig, SequenceTheorems, TLAPS

\* The Go types of the fields, Nil standing for a nil pointer, slice or map.
\* Str is the Go string type.  It equals STRING; the literals an edit sets
\* (Strs and the feature gate "g") are named because the provers do not
\* know that a literal is in STRING.
Str == STRING \cup Strs \cup {"g"}
Port == {Nil} \cup Int
StringList == {Nil} \cup Seq(Str)
GateMap == {Nil} \cup UNION {[D -> BOOLEAN] : D \in SUBSET Str}

AnyFilesystem == [certFile : Str, keyFile : Str]
AnyDynamic == [secretNamespace : Str, secretName : Str, dnsNames : StringList]
AnyTLS ==
    [cipherSuites : StringList, minTLSVersion : Str,
     filesystem : AnyFilesystem, dynamic : AnyDynamic]
AnyConfig ==
    [kind : Str, apiVersion : Str, securePort : Port, healthzPort : Port,
     tlsConfig : AnyTLS, kubeConfig : Str, apiServerHost : Str,
     enablePprof : BOOLEAN, pprofAddress : Str, featureGates : GateMap]

-----------------------------------------------------------------------------
\* What unmarshalling reads back from a key of a marshalled struct: the
\* field's value, or the zero value z when omitempty dropped the field.
LEMMA GetObject ==
  ASSUME NEW fields, NEW empty, NEW key \in DOMAIN fields, NEW z
  PROVE  Get(Object(fields, empty), key, z) = IF empty[key] THEN z ELSE fields[key]
BY DEF Get, Object

\* A field whose omitempty test is "equals its zero value" reads back as
\* written.
LEMMA GetOmitted ==
  ASSUME NEW fields, NEW empty, NEW key \in DOMAIN fields, NEW z,
         empty[key] <=> fields[key] = z
  PROVE  Get(Object(fields, empty), key, z) = fields[key]
<1>1. Get(Object(fields, empty), key, z) = IF empty[key] THEN z ELSE fields[key]
  BY GetObject
<1>2. QED
  BY <1>1, Zenon

\* A field without omitempty reads back as written.
LEMMA GetKept ==
  ASSUME NEW fields, NEW empty, NEW key \in DOMAIN fields, NEW z, ~empty[key]
  PROVE  Get(Object(fields, empty), key, z) = fields[key]
BY GetObject

\* A FilesystemServingConfig survives marshal and unmarshal unchanged.
LEMMA FilesystemRoundTrip ==
  ASSUME NEW f \in AnyFilesystem
  PROVE  DecodeFilesystemServingConfig(EncodeFilesystemServingConfig(f)) = f
<1> DEFINE fields == [certFile |-> f.certFile, keyFile |-> f.keyFile]
           empty == [certFile |-> OmitString(f.certFile), keyFile |-> OmitString(f.keyFile)]
           o == Object(fields, empty)
<1>1. o = EncodeFilesystemServingConfig(f)
  BY DEF EncodeFilesystemServingConfig
<1>2. Get(o, "certFile", "") = f.certFile
  <2>1. Get(o, "certFile", "") = IF empty["certFile"] THEN "" ELSE fields["certFile"]
    BY GetObject
  <2>2. QED
    BY <2>1 DEF OmitString
<1>3. Get(o, "keyFile", "") = f.keyFile
  <2>1. Get(o, "keyFile", "") = IF empty["keyFile"] THEN "" ELSE fields["keyFile"]
    BY GetObject
  <2>2. QED
    BY <2>1 DEF OmitString
<1>4. QED
  BY <1>1, <1>2, <1>3 DEF DecodeFilesystemServingConfig, AnyFilesystem

\* What unmarshalling reads back for a slice or map field with omitempty:
\* nil when it was nil or empty.
Dropped(l) == IF OmitList(l) THEN Nil ELSE l

\* A nil and an empty slice or map mean the same to the webhook.
NormList(l) == IF l = Nil THEN <<>> ELSE l

\* Dropping an empty slice or map loses nothing the webhook can tell apart.
LEMMA DroppedNormal ==
  ASSUME NEW l \in StringList \cup GateMap
  PROVE  NormList(Dropped(l)) = NormList(l)
<1>1. CASE l = Nil
  BY <1>1 DEF Dropped, NormList, OmitList
<1>2. CASE l # Nil /\ DOMAIN l # {}
  BY <1>2 DEF Dropped, NormList, OmitList
<1>3. CASE l # Nil /\ DOMAIN l = {}
  <2>1. l = <<>>
    <3>1. CASE l \in Seq(Str)
      BY <1>3, <3>1, LenProperties, EmptySeq
    <3>2. CASE l \in UNION {[D -> BOOLEAN] : D \in SUBSET Str}
      <4>1. PICK D \in SUBSET Str : l \in [D -> BOOLEAN]
        BY <3>2
      <4>2. l \in [{} -> BOOLEAN] /\ <<>> \in [{} -> BOOLEAN]
        BY <1>3, <4>1
      <4>3. QED
        BY <4>2
    <3>3. QED
      BY <1>3, <3>1, <3>2 DEF StringList, GateMap
  <2>2. QED
    BY <1>3, <2>1 DEF Dropped, NormList, OmitList
<1>4. QED
  BY <1>1, <1>2, <1>3

\* A DynamicServingConfig survives marshal and unmarshal up to a dropped
\* empty dnsNames.
LEMMA DynamicRoundTrip ==
  ASSUME NEW d \in AnyDynamic
  PROVE  DecodeDynamicServingConfig(EncodeDynamicServingConfig(d)) =
           [secretNamespace |-> d.secretNamespace, secretName |-> d.secretName,
            dnsNames |-> Dropped(d.dnsNames)]
<1> DEFINE fields == [secretNamespace |-> d.secretNamespace, secretName |-> d.secretName,
                      dnsNames |-> d.dnsNames]
           empty == [secretNamespace |-> OmitString(d.secretNamespace),
                     secretName |-> OmitString(d.secretName), dnsNames |-> OmitList(d.dnsNames)]
           o == Object(fields, empty)
<1>1. o = EncodeDynamicServingConfig(d)
  BY DEF EncodeDynamicServingConfig
<1>2. Get(o, "secretNamespace", "") = d.secretNamespace
  <2>1. Get(o, "secretNamespace", "") = IF empty["secretNamespace"] THEN "" ELSE fields["secretNamespace"]
    BY GetObject
  <2>2. QED
    BY <2>1 DEF OmitString
<1>3. Get(o, "secretName", "") = d.secretName
  <2>1. Get(o, "secretName", "") = IF empty["secretName"] THEN "" ELSE fields["secretName"]
    BY GetObject
  <2>2. QED
    BY <2>1 DEF OmitString
<1>4. Get(o, "dnsNames", Nil) = Dropped(d.dnsNames)
  <2>1. Get(o, "dnsNames", Nil) = IF empty["dnsNames"] THEN Nil ELSE fields["dnsNames"]
    BY GetObject
  <2>2. QED
    BY <2>1 DEF Dropped
<1>5. QED
  BY <1>1, <1>2, <1>3, <1>4 DEF DecodeDynamicServingConfig

\* A TLSConfig survives marshal and unmarshal up to dropped empty lists.
LEMMA TLSRoundTrip ==
  ASSUME NEW t \in AnyTLS
  PROVE  DecodeTLSConfig(EncodeTLSConfig(t)) =
           [cipherSuites |-> Dropped(t.cipherSuites), minTLSVersion |-> t.minTLSVersion,
            filesystem |-> t.filesystem,
            dynamic |-> [secretNamespace |-> t.dynamic.secretNamespace,
                         secretName |-> t.dynamic.secretName,
                         dnsNames |-> Dropped(t.dynamic.dnsNames)]]
<1> DEFINE fields == [cipherSuites |-> t.cipherSuites, minTLSVersion |-> t.minTLSVersion,
                      filesystem |-> EncodeFilesystemServingConfig(t.filesystem),
                      dynamic |-> EncodeDynamicServingConfig(t.dynamic)]
           empty == [cipherSuites |-> OmitList(t.cipherSuites),
                     minTLSVersion |-> OmitString(t.minTLSVersion),
                     filesystem |-> FALSE, dynamic |-> FALSE]
           o == Object(fields, empty)
<1>1. o = EncodeTLSConfig(t)
  BY DEF EncodeTLSConfig
<1>2. Get(o, "cipherSuites", Nil) = Dropped(t.cipherSuites)
  <2>1. Get(o, "cipherSuites", Nil) = IF empty["cipherSuites"] THEN Nil ELSE fields["cipherSuites"]
    BY GetObject
  <2>2. QED
    BY <2>1 DEF Dropped
<1>3. Get(o, "minTLSVersion", "") = t.minTLSVersion
  <2>1. Get(o, "minTLSVersion", "") = IF empty["minTLSVersion"] THEN "" ELSE fields["minTLSVersion"]
    BY GetObject
  <2>2. QED
    BY <2>1 DEF OmitString
<1>4. DecodeFilesystemServingConfig(Get(o, "filesystem", EmptyObject)) = t.filesystem
  <2>1. Get(o, "filesystem", EmptyObject) = EncodeFilesystemServingConfig(t.filesystem)
    BY GetObject
  <2>2. QED
    BY <2>1, FilesystemRoundTrip DEF AnyTLS
<1>5. DecodeDynamicServingConfig(Get(o, "dynamic", EmptyObject)) =
        [secretNamespace |-> t.dynamic.secretNamespace, secretName |-> t.dynamic.secretName,
         dnsNames |-> Dropped(t.dynamic.dnsNames)]
  <2>1. Get(o, "dynamic", EmptyObject) = EncodeDynamicServingConfig(t.dynamic)
    BY GetObject
  <2>2. QED
    BY <2>1, DynamicRoundTrip DEF AnyTLS
<1>6. QED
  BY <1>1, <1>2, <1>3, <1>4, <1>5 DEF DecodeTLSConfig

\* Normalize(SetDefaults(c)) written out field by field.
NormalDefaulted(c) ==
    [kind |-> c.kind, apiVersion |-> c.apiVersion,
     securePort |-> IF c.securePort = Nil THEN 6443 ELSE c.securePort,
     healthzPort |-> IF c.healthzPort = Nil THEN 6080 ELSE c.healthzPort,
     tlsConfig |-> [cipherSuites |-> NormList(c.tlsConfig.cipherSuites),
                    minTLSVersion |-> c.tlsConfig.minTLSVersion,
                    filesystem |-> c.tlsConfig.filesystem,
                    dynamic |-> [secretNamespace |-> c.tlsConfig.dynamic.secretNamespace,
                                 secretName |-> c.tlsConfig.dynamic.secretName,
                                 dnsNames |-> NormList(c.tlsConfig.dynamic.dnsNames)]],
     kubeConfig |-> c.kubeConfig, apiServerHost |-> c.apiServerHost,
     enablePprof |-> c.enablePprof,
     pprofAddress |-> IF c.pprofAddress = "" THEN "localhost:6060" ELSE c.pprofAddress,
     featureGates |-> NormList(c.featureGates)]

\* The defaulted, normalized configuration is NormalDefaulted.
LEMMA NormalForm ==
  ASSUME NEW c \in AnyConfig
  PROVE  Normalize(SetDefaults(c)) = NormalDefaulted(c)
<1>1. c.tlsConfig \in AnyTLS /\ c.tlsConfig.dynamic \in AnyDynamic
  BY DEF AnyConfig, AnyTLS
<1>2. c = [kind |-> c.kind, apiVersion |-> c.apiVersion,
           securePort |-> c.securePort, healthzPort |-> c.healthzPort,
           tlsConfig |-> c.tlsConfig, kubeConfig |-> c.kubeConfig,
           apiServerHost |-> c.apiServerHost, enablePprof |-> c.enablePprof,
           pprofAddress |-> c.pprofAddress, featureGates |-> c.featureGates]
  BY DEF AnyConfig
<1>3. c.tlsConfig = [cipherSuites |-> c.tlsConfig.cipherSuites,
                     minTLSVersion |-> c.tlsConfig.minTLSVersion,
                     filesystem |-> c.tlsConfig.filesystem,
                     dynamic |-> c.tlsConfig.dynamic]
  BY <1>1 DEF AnyTLS
<1>4. c.tlsConfig.dynamic = [secretNamespace |-> c.tlsConfig.dynamic.secretNamespace,
                             secretName |-> c.tlsConfig.dynamic.secretName,
                             dnsNames |-> c.tlsConfig.dynamic.dnsNames]
  BY <1>1 DEF AnyDynamic
<1> DEFINE t == c.tlsConfig
           d == c.tlsConfig.dynamic
           sp == IF c.securePort = Nil THEN 6443 ELSE c.securePort
           hp == IF c.healthzPort = Nil THEN 6080 ELSE c.healthzPort
           pa == IF c.pprofAddress = "" THEN "localhost:6060" ELSE c.pprofAddress
           fg == NormList(c.featureGates)
           cs == NormList(t.cipherSuites)
           dn == NormList(d.dnsNames)
           s == [kind |-> c.kind, apiVersion |-> c.apiVersion,
                 securePort |-> sp, healthzPort |-> hp,
                 tlsConfig |-> [cipherSuites |-> t.cipherSuites,
                                minTLSVersion |-> t.minTLSVersion,
                                filesystem |-> t.filesystem,
                                dynamic |-> [secretNamespace |-> d.secretNamespace,
                                             secretName |-> d.secretName,
                                             dnsNames |-> d.dnsNames]],
                 kubeConfig |-> c.kubeConfig,
                 apiServerHost |-> c.apiServerHost, enablePprof |-> c.enablePprof,
                 pprofAddress |-> pa, featureGates |-> c.featureGates]
<1> HIDE DEF sp, hp, pa, fg, cs, dn, s
<1>5. SetDefaults(c) = s
  <2>1. SetDefaults(c) = [c EXCEPT !.securePort = sp, !.healthzPort = hp, !.pprofAddress = pa]
    BY DEF SetDefaults, sp, hp, pa
  <2>2. QED
    BY <1>2, <1>3, <1>4, <2>1 DEF s
<1>6. Normalize(s) = NormalDefaulted(c)
  <2>1. Normalize(s) = [s EXCEPT !.featureGates = NormList(s.featureGates),
                                 !.tlsConfig.cipherSuites = NormList(s.tlsConfig.cipherSuites),
                                 !.tlsConfig.dynamic.dnsNames = NormList(s.tlsConfig.dynamic.dnsNames)]
    BY DEF Normalize, NormList
  <2>2. /\ s.featureGates = c.featureGates
        /\ s.tlsConfig.cipherSuites = t.cipherSuites
        /\ s.tlsConfig.dynamic.dnsNames = d.dnsNames
    BY DEF s
  <2>3. Normalize(s) = [s EXCEPT !.featureGates = fg, !.tlsConfig.cipherSuites = cs,
                                 !.tlsConfig.dynamic.dnsNames = dn]
    BY <2>1, <2>2 DEF fg, cs, dn
  <2>4. NormalDefaulted(c) =
          [kind |-> c.kind, apiVersion |-> c.apiVersion,
           securePort |-> sp, healthzPort |-> hp,
           tlsConfig |-> [cipherSuites |-> cs, minTLSVersion |-> t.minTLSVersion,
                          filesystem |-> t.filesystem,
                          dynamic |-> [secretNamespace |-> d.secretNamespace,
                                       secretName |-> d.secretName, dnsNames |-> dn]],
           kubeConfig |-> c.kubeConfig, apiServerHost |-> c.apiServerHost,
           enablePprof |-> c.enablePprof, pprofAddress |-> pa, featureGates |-> fg]
    BY DEF NormalDefaulted, sp, hp, pa, fg, cs, dn
  <2> DEFINE rest(g, cc, dd) ==
               [kind |-> c.kind, apiVersion |-> c.apiVersion,
                securePort |-> sp, healthzPort |-> hp,
                tlsConfig |-> [cipherSuites |-> cc, minTLSVersion |-> t.minTLSVersion,
                               filesystem |-> t.filesystem,
                               dynamic |-> [secretNamespace |-> d.secretNamespace,
                                            secretName |-> d.secretName, dnsNames |-> dd]],
                kubeConfig |-> c.kubeConfig, apiServerHost |-> c.apiServerHost,
                enablePprof |-> c.enablePprof, pprofAddress |-> pa, featureGates |-> g]
  <2>5. s = rest(c.featureGates, t.cipherSuites, d.dnsNames)
    BY DEF s
  <2>6. [rest(c.featureGates, t.cipherSuites, d.dnsNames) EXCEPT !.featureGates = fg] =
          rest(fg, t.cipherSuites, d.dnsNames)
    OBVIOUS
  <2>7. [rest(fg, t.cipherSuites, d.dnsNames) EXCEPT !.tlsConfig.cipherSuites = cs] =
          rest(fg, cs, d.dnsNames)
    OBVIOUS
  <2>8. [rest(fg, cs, d.dnsNames) EXCEPT !.tlsConfig.dynamic.dnsNames = dn] = rest(fg, cs, dn)
    OBVIOUS
  <2> HIDE DEF rest
  <2>9. Normalize(s) = rest(fg, cs, dn)
    BY <2>3, <2>5, <2>6, <2>7, <2>8
  <2>10. QED
    BY <2>4, <2>9 DEF rest
<1>7. QED
  BY <1>5, <1>6

\* NormalDefaulted looks at the fields only up to nil and empty lists.
LEMMA NormalDefaultedCongruence ==
  ASSUME NEW a, NEW b,
         a.kind = b.kind, a.apiVersion = b.apiVersion,
         a.securePort = b.securePort, a.healthzPort = b.healthzPort,
         a.kubeConfig = b.kubeConfig, a.apiServerHost = b.apiServerHost,
         a.enablePprof = b.enablePprof, a.pprofAddress = b.pprofAddress,
         NormList(a.featureGates) = NormList(b.featureGates),
         NormList(a.tlsConfig.cipherSuites) = NormList(b.tlsConfig.cipherSuites),
         a.tlsConfig.minTLSVersion = b.tlsConfig.minTLSVersion,
         a.tlsConfig.filesystem = b.tlsConfig.filesystem,
         a.tlsConfig.dynamic.secretNamespace = b.tlsConfig.dynamic.secretNamespace,
         a.tlsConfig.dynamic.secretName = b.tlsConfig.dynamic.secretName,
         NormList(a.tlsConfig.dynamic.dnsNames) = NormList(b.tlsConfig.dynamic.dnsNames)
  PROVE  NormalDefaulted(a) = NormalDefaulted(b)
BY DEF NormalDefaulted

\* What unmarshalling a marshalled configuration reads back is again a
\* configuration.
LEMMA DroppedType ==
  ASSUME NEW l \in StringList \cup GateMap
  PROVE  /\ l \in StringList => Dropped(l) \in StringList
         /\ l \in GateMap => Dropped(l) \in GateMap
BY DEF Dropped, StringList, GateMap

\* Unmarshalling a marshalled configuration gives a configuration that
\* differs from the original only in empty lists read back as nil.
LEMMA ConfigRoundTrip ==
  ASSUME NEW c \in AnyConfig
  PROVE  /\ DecodeWebhookConfiguration(EncodeWebhookConfiguration(c)) \in AnyConfig
         /\ NormalDefaulted(DecodeWebhookConfiguration(EncodeWebhookConfiguration(c))) =
              NormalDefaulted(c)
<1> DEFINE fields ==
             [kind |-> c.kind, apiVersion |-> c.apiVersion,
              securePort |-> c.securePort, healthzPort |-> c.healthzPort,
              tlsConfig |-> EncodeTLSConfig(c.tlsConfig),
              kubeConfig |-> c.kubeConfig, apiServerHost |-> c.apiServerHost,
              enablePprof |-> c.enablePprof, pprofAddress |-> c.pprofAddress,
              featureGates |-> c.featureGates]
           empty == [kind |-> OmitString(c.kind), apiVersion |-> OmitString(c.apiVersion),
                     securePort |-> OmitPointer(c.securePort),
                     healthzPort |-> OmitPointer(c.healthzPort),
                     tlsConfig |-> FALSE,
                     kubeConfig |-> OmitString(c.kubeConfig),
                     apiServerHost |-> OmitString(c.apiServerHost),
                     enablePprof |-> FALSE, pprofAddress |-> OmitString(c.pprofAddress),
                     featureGates |-> OmitList(c.featureGates)]
           o == Object(fields, empty)
           r == DecodeWebhookConfiguration(o)
<1>1. o = EncodeWebhookConfiguration(c)
  BY DEF EncodeWebhookConfiguration, ConfigFields
<1> HIDE DEF fields, empty
<1>2a. Get(o, "kind", "") = c.kind
  <2>1. "kind" \in DOMAIN fields /\ fields["kind"] = c.kind /\ (empty["kind"] <=> fields["kind"] = "")
    BY DEF fields, empty, OmitString
  <2>2. QED
    BY <2>1, GetOmitted
<1>2b. Get(o, "apiVersion", "") = c.apiVersion
  <2>1. "apiVersion" \in DOMAIN fields /\ fields["apiVersion"] = c.apiVersion /\ (empty["apiVersion"] <=> fields["apiVersion"] = "")
    BY DEF fields, empty, OmitString
  <2>2. QED
    BY <2>1, GetOmitted
<1>2c. Get(o, "securePort", Nil) = c.securePort
  <2>1. "securePort" \in DOMAIN fields /\ fields["securePort"] = c.securePort /\ (empty["securePort"] <=> fields["securePort"] = Nil)
    BY DEF fields, empty, OmitPointer
  <2>2. QED
    BY <2>1, GetOmitted
<1>2d. Get(o, "healthzPort", Nil) = c.healthzPort
  <2>1. "healthzPort" \in DOMAIN fields /\ fields["healthzPort"] = c.healthzPort /\ (empty["healthzPort"] <=> fields["healthzPort"] = Nil)
    BY DEF fields, empty, OmitPointer
  <2>2. QED
    BY <2>1, GetOmitted
<1>2e. Get(o, "kubeConfig", "") = c.kubeConfig
  <2>1. "kubeConfig" \in DOMAIN fields /\ fields["kubeConfig"] = c.kubeConfig /\ (empty["kubeConfig"] <=> fields["kubeConfig"] = "")
    BY DEF fields, empty, OmitString
  <2>2. QED
    BY <2>1, GetOmitted
<1>2f. Get(o, "apiServerHost", "") = c.apiServerHost
  <2>1. "apiServerHost" \in DOMAIN fields /\ fields["apiServerHost"] = c.apiServerHost /\ (empty["apiServerHost"] <=> fields["apiServerHost"] = "")
    BY DEF fields, empty, OmitString
  <2>2. QED
    BY <2>1, GetOmitted
<1>2g. Get(o, "pprofAddress", "") = c.pprofAddress
  <2>1. "pprofAddress" \in DOMAIN fields /\ fields["pprofAddress"] = c.pprofAddress /\ (empty["pprofAddress"] <=> fields["pprofAddress"] = "")
    BY DEF fields, empty, OmitString
  <2>2. QED
    BY <2>1, GetOmitted
<1>2h. Get(o, "enablePprof", FALSE) = c.enablePprof
  <2>1. "enablePprof" \in DOMAIN fields /\ fields["enablePprof"] = c.enablePprof /\ ~empty["enablePprof"]
    BY DEF fields, empty
  <2>2. QED
    BY <2>1, GetKept
<1>2i. Get(o, "tlsConfig", EmptyObject) = EncodeTLSConfig(c.tlsConfig)
  <2>1. "tlsConfig" \in DOMAIN fields /\ fields["tlsConfig"] = EncodeTLSConfig(c.tlsConfig) /\ ~empty["tlsConfig"]
    BY DEF fields, empty
  <2>2. QED
    BY <2>1, GetKept
<1>2j. Get(o, "featureGates", Nil) = Dropped(c.featureGates)
  <2>1. "featureGates" \in DOMAIN fields /\ fields["featureGates"] = c.featureGates /\ empty["featureGates"] = OmitList(c.featureGates)
    BY DEF fields, empty
  <2>2. Get(o, "featureGates", Nil) = IF empty["featureGates"] THEN Nil ELSE fields["featureGates"]
    BY <2>1, GetObject
  <2>3. QED
    BY <2>1, <2>2 DEF Dropped
<1> HIDE DEF o
<1>4. /\ r.kind = c.kind /\ r.apiVersion = c.apiVersion
      /\ r.securePort = c.securePort /\ r.healthzPort = c.healthzPort
      /\ r.kubeConfig = c.kubeConfig /\ r.apiServerHost = c.apiServerHost
      /\ r.enablePprof = c.enablePprof /\ r.pprofAddress = c.pprofAddress
      /\ r.featureGates = Dropped(c.featureGates)
  BY <1>2a, <1>2b, <1>2c, <1>2d, <1>2e, <1>2f, <1>2g, <1>2h, <1>2j DEF DecodeWebhookConfiguration
<1>5. r.tlsConfig = DecodeTLSConfig(EncodeTLSConfig(c.tlsConfig))
  BY <1>2i DEF DecodeWebhookConfiguration
<1>6. c.tlsConfig \in AnyTLS
  BY DEF AnyConfig
<1>7. r.tlsConfig =
        [cipherSuites |-> Dropped(c.tlsConfig.cipherSuites),
         minTLSVersion |-> c.tlsConfig.minTLSVersion,
         filesystem |-> c.tlsConfig.filesystem,
         dynamic |-> [secretNamespace |-> c.tlsConfig.dynamic.secretNamespace,
                      secretName |-> c.tlsConfig.dynamic.secretName,
                      dnsNames |-> Dropped(c.tlsConfig.dynamic.dnsNames)]]
  BY <1>5, <1>6, TLSRoundTrip
<1>8. /\ c.featureGates \in GateMap
      /\ c.tlsConfig.cipherSuites \in StringList
      /\ c.tlsConfig.dynamic.dnsNames \in StringList
  BY <1>6 DEF AnyConfig, AnyTLS, AnyDynamic
<1>9. /\ Dropped(c.featureGates) \in GateMap
      /\ Dropped(c.tlsConfig.cipherSuites) \in StringList
      /\ Dropped(c.tlsConfig.dynamic.dnsNames) \in StringList
  BY <1>8, DroppedType
<1>10. /\ NormList(Dropped(c.featureGates)) = NormList(c.featureGates)
       /\ NormList(Dropped(c.tlsConfig.cipherSuites)) = NormList(c.tlsConfig.cipherSuites)
       /\ NormList(Dropped(c.tlsConfig.dynamic.dnsNames)) = NormList(c.tlsConfig.dynamic.dnsNames)
  BY <1>8, DroppedNormal
<1>11. r \in AnyConfig
  <2>1. r = [kind |-> r.kind, apiVersion |-> r.apiVersion,
             securePort |-> r.securePort, healthzPort |-> r.healthzPort,
             tlsConfig |-> r.tlsConfig, kubeConfig |-> r.kubeConfig,
             apiServerHost |-> r.apiServerHost, enablePprof |-> r.enablePprof,
             pprofAddress |-> r.pprofAddress, featureGates |-> r.featureGates]
    BY DEF DecodeWebhookConfiguration
  <2>2. r.tlsConfig \in AnyTLS
    <3>1. /\ c.tlsConfig.minTLSVersion \in Str
          /\ c.tlsConfig.filesystem \in AnyFilesystem
          /\ c.tlsConfig.dynamic.secretNamespace \in Str
          /\ c.tlsConfig.dynamic.secretName \in Str
      BY <1>6 DEF AnyTLS, AnyDynamic
    <3>2. QED
      BY <1>7, <1>9, <3>1 DEF AnyTLS, AnyDynamic
  <2>3. QED
    BY <1>4, <1>9, <2>1, <2>2 DEF AnyConfig
<1>12. NormalDefaulted(r) = NormalDefaulted(c)
  <2>1. /\ r.tlsConfig.cipherSuites = Dropped(c.tlsConfig.cipherSuites)
        /\ r.tlsConfig.minTLSVersion = c.tlsConfig.minTLSVersion
        /\ r.tlsConfig.filesystem = c.tlsConfig.filesystem
        /\ r.tlsConfig.dynamic.secretNamespace = c.tlsConfig.dynamic.secretNamespace
        /\ r.tlsConfig.dynamic.secretName = c.tlsConfig.dynamic.secretName
        /\ r.tlsConfig.dynamic.dnsNames = Dropped(c.tlsConfig.dynamic.dnsNames)
    BY <1>7
  <2>2. QED
    BY <1>4, <1>10, <2>1, NormalDefaultedCongruence
<1>13. QED
  BY <1>1, <1>11, <1>12 DEF o

\* The configuration the webhook loads from a file written from c is, up to
\* nil and empty lists, c with its defaults.
LEMMA LoadRoundTrip ==
  ASSUME NEW c \in AnyConfig
  PROVE  Normalize(SetDefaults(DecodeWebhookConfiguration(EncodeWebhookConfiguration(c)))) =
           Normalize(SetDefaults(c))
BY ConfigRoundTrip, NormalForm

-----------------------------------------------------------------------------
(* The state invariant: the file holds the marshalled configuration, which *)
(* is not edited after it is written, and the webhook holds what it        *)
(* unmarshalled and defaulted from the file.                               *)

StoredAsEncoded ==
    /\ file # Nil => file = EncodeWebhookConfiguration(cfg)
    /\ loaded # Nil => /\ file # Nil
                       /\ loaded = SetDefaults(DecodeWebhookConfiguration(file))

WInv == cfg \in AnyConfig /\ StoredAsEncoded

\* The values an edit may set are values of the fields' Go types.
LEMMA ValueDomains ==
  /\ Strs \subseteq Str
  /\ Ports \subseteq Port
  /\ Lists \subseteq StringList
  /\ Gates \subseteq GateMap
<1>1. Strs \subseteq Str /\ Ports \subseteq Port
  <2>1. Strs \subseteq Str
    BY DEF Str
  <2>2. Nil \in Port /\ 0 \in Port /\ 10250 \in Port
    BY DEF Port
  <2>3. QED
    BY <2>1, <2>2 DEF Ports
<1>2. Lists \subseteq StringList
  <2>1. <<>> \in Seq(Str) /\ <<"v">> \in Seq(Str)
    BY DEF Str, Strs
  <2>2. QED
    BY <2>1 DEF Lists, StringList
<1>3. Gates \subseteq GateMap
  <2>1. [g \in {} |-> TRUE] \in [{} -> BOOLEAN] /\ [g \in {"g"} |-> TRUE] \in [{"g"} -> BOOLEAN]
    OBVIOUS
  <2>2. {} \in SUBSET Str /\ {"g"} \in SUBSET Str
    BY DEF Str, Strs
  <2>3. QED
    BY <2>1, <2>2 DEF Gates, GateMap
<1>4. QED
  BY <1>1, <1>2, <1>3

\* The zero configuration is a configuration.
LEMMA ZeroType == ZeroConfig \in AnyConfig
<1>1. Nil \in Port /\ Nil \in StringList /\ Nil \in GateMap
  BY DEF Port, StringList, GateMap
<1>2. "" \in Str
  BY DEF Str, Strs
<1>3. QED
  BY <1>1, <1>2 DEF ZeroConfig, AnyConfig, AnyTLS, AnyFilesystem, AnyDynamic

\* Setting a top-level field to a value of its domain keeps a configuration.
LEMMA TopEdit ==
  ASSUME NEW c \in AnyConfig, NEW f \in DOMAIN TopFields, NEW v \in TopFields[f]
  PROVE  [c EXCEPT ![f] = v] \in AnyConfig
BY ValueDomains DEF TopFields, AnyConfig

\* Setting a field of the TLSConfig keeps a configuration.
LEMMA TLSEdit ==
  ASSUME NEW c \in AnyConfig, NEW f \in DOMAIN TLSFields, NEW v \in TLSFields[f]
  PROVE  [c EXCEPT !["tlsConfig"][f] = v] \in AnyConfig
BY ValueDomains DEF TLSFields, AnyConfig, AnyTLS

\* Setting a field of one of the serving configs keeps a configuration.
LEMMA FilesystemEdit ==
  ASSUME NEW c \in AnyConfig, NEW f \in DOMAIN FilesystemFields,
         NEW v \in FilesystemFields[f]
  PROVE  [c EXCEPT !["tlsConfig"]["filesystem"][f] = v] \in AnyConfig
BY ValueDomains DEF FilesystemFields, AnyConfig, AnyTLS, AnyFilesystem

LEMMA DynamicEdit ==
  ASSUME NEW c \in AnyConfig, NEW f \in DOMAIN DynamicFields,
         NEW v \in DynamicFields[f]
  PROVE  [c EXCEPT !["tlsConfig"]["dynamic"][f] = v] \in AnyConfig
BY ValueDomains DEF DynamicFields, AnyConfig, AnyTLS, AnyDynamic

\* What SetField does for a path of each length.
LEMMA SetField1 ==
  ASSUME NEW v, NEW f1, SetField(<<f1>>, v)
  PROVE  file = Nil /\ cfg' = [cfg EXCEPT ![f1] = v] /\ UNCHANGED <<file, loaded>>
<1>1. Len(<<f1>>) = 1
  OBVIOUS
<1>2. QED
  BY <1>1 DEF SetField

LEMMA SetField2 ==
  ASSUME NEW v, NEW f1, NEW f2, SetField(<<f1, f2>>, v)
  PROVE  file = Nil /\ cfg' = [cfg EXCEPT ![f1][f2] = v] /\ UNCHANGED <<file, loaded>>
<1>1. Len(<<f1, f2>>) = 2
  OBVIOUS
<1>2. QED
  BY <1>1 DEF SetField

LEMMA SetField3 ==
  ASSUME NEW v, NEW f1, NEW f2, NEW f3, SetField(<<f1, f2, f3>>, v)
  PROVE  file = Nil /\ cfg' = [cfg EXCEPT ![f1][f2][f3] = v] /\ UNCHANGED <<file, loaded>>
<1>1. Len(<<f1, f2, f3>>) = 3
  OBVIOUS
<1>2. QED
  BY <1>1 DEF SetField

\* Each step keeps the configuration typed, the file equal to the
\* marshalled configuration, and the loaded configuration equal to what was
\* read from the file.
LEMMA WInvStep ==
  ASSUME WInv, [Next]_vars
  PROVE  WInv'
<1>1. CASE Edit
  <2>1. file = Nil /\ UNCHANGED <<file, loaded>> /\ cfg' \in AnyConfig
    <3>1. cfg \in AnyConfig
      BY DEF WInv
    <3>2. CASE \E f \in DOMAIN TopFields : \E v \in TopFields[f] : SetField(<<f>>, v)
      <4>0. PICK f \in DOMAIN TopFields : \E v \in TopFields[f] : SetField(<<f>>, v)
        BY <3>2
      <4>1. PICK v \in TopFields[f] : SetField(<<f>>, v)
        BY <4>0
      <4>2. file = Nil /\ cfg' = [cfg EXCEPT ![f] = v] /\ UNCHANGED <<file, loaded>>
        BY <4>1, SetField1
      <4>3. [cfg EXCEPT ![f] = v] \in AnyConfig
        BY <3>1, TopEdit
      <4>4. QED
        BY <4>2, <4>3
    <3>3. CASE \E f \in DOMAIN TLSFields : \E v \in TLSFields[f] :
                  SetField(<<"tlsConfig", f>>, v)
      <4>0. PICK f \in DOMAIN TLSFields : \E v \in TLSFields[f] : SetField(<<"tlsConfig", f>>, v)
        BY <3>3
      <4>1. PICK v \in TLSFields[f] : SetField(<<"tlsConfig", f>>, v)
        BY <4>0
      <4>2. file = Nil /\ cfg' = [cfg EXCEPT !["tlsConfig"][f] = v] /\ UNCHANGED <<file, loaded>>
        BY <4>1, SetField2
      <4>3. [cfg EXCEPT !["tlsConfig"][f] = v] \in AnyConfig
        BY <3>1, TLSEdit
      <4>4. QED
        BY <4>2, <4>3
    <3>4. CASE \E f \in DOMAIN FilesystemFields : \E v \in FilesystemFields[f] :
                  SetField(<<"tlsConfig", "filesystem", f>>, v)
      <4>0. PICK f \in DOMAIN FilesystemFields : \E v \in FilesystemFields[f] : SetField(<<"tlsConfig", "filesystem", f>>, v)
        BY <3>4
      <4>1. PICK v \in FilesystemFields[f] : SetField(<<"tlsConfig", "filesystem", f>>, v)
        BY <4>0
      <4>2. file = Nil /\ cfg' = [cfg EXCEPT !["tlsConfig"]["filesystem"][f] = v] /\ UNCHANGED <<file, loaded>>
        BY <4>1, SetField3
      <4>3. [cfg EXCEPT !["tlsConfig"]["filesystem"][f] = v] \in AnyConfig
        BY <3>1, FilesystemEdit
      <4>4. QED
        BY <4>2, <4>3
    <3>5. CASE \E f \in DOMAIN DynamicFields : \E v \in DynamicFields[f] :
                  SetField(<<"tlsConfig", "dynamic", f>>, v)
      <4>0. PICK f \in DOMAIN DynamicFields : \E v \in DynamicFields[f] : SetField(<<"tlsConfig", "dynamic", f>>, v)
        BY <3>5
      <4>1. PICK v \in DynamicFields[f] : SetField(<<"tlsConfig", "dynamic", f>>, v)
        BY <4>0
      <4>2. file = Nil /\ cfg' = [cfg EXCEPT !["tlsConfig"]["dynamic"][f] = v] /\ UNCHANGED <<file, loaded>>
        BY <4>1, SetField3
      <4>3. [cfg EXCEPT !["tlsConfig"]["dynamic"][f] = v] \in AnyConfig
        BY <3>1, DynamicEdit
      <4>4. QED
        BY <4>2, <4>3
    <3>6. QED
      BY <1>1, <3>2, <3>3, <3>4, <3>5 DEF Edit
  <2>2. loaded = Nil
    BY <2>1 DEF WInv, StoredAsEncoded
  <2>3. QED
    BY <2>1, <2>2 DEF WInv, StoredAsEncoded
<1>2. CASE Marshal
  <2>1. loaded = Nil
    BY <1>2 DEF Marshal, WInv, StoredAsEncoded
  <2>2. QED
    BY <1>2, <2>1 DEF Marshal, WInv, StoredAsEncoded
<1>3. CASE Load
  BY <1>3 DEF Load, WInv, StoredAsEncoded
<1>4. CASE UNCHANGED vars
  BY <1>4 DEF vars, WInv, StoredAsEncoded
<1>5. QED
  BY <1>1, <1>2, <1>3, <1>4 DEF Next

\* The configuration is typed and file and webhook hold what was marshalled
\* and loaded, in every reachable state.
THEOREM WInvariant == Spec => []WInv
<1>1. Init => WInv
  BY ZeroType DEF Init, WInv, StoredAsEncoded
<1>2. WInv /\ [Next]_vars => WInv'
  BY WInvStep
<1>3. QED
  BY <1>1, <1>2, PTL DEF Spec

(***************************************************************************)
(* Once the webhook has loaded the file, what it holds is the written     *)
(* configuration with its defaults, up to nil and empty lists: a port of 0 *)
(* stays 0 (a *int32 to 0 is not omitted), a nil port becomes its default. *)
(* The argument: the file is the marshalled cfg (WInv), and unmarshalling  *)
(* a marshalled configuration gives it back up to dropped empty lists      *)
(* (LoadRoundTrip), for every value of the fields' Go types.               *)
(***************************************************************************)
THEOREM LoadedAsWrittenInvariant == Spec => []LoadedAsWritten
<1>1. WInv => LoadedAsWritten
  <2> SUFFICES ASSUME WInv, loaded # Nil
               PROVE  Normalize(loaded) = Normalize(SetDefaults(cfg))
    BY DEF LoadedAsWritten
  <2>1. cfg \in AnyConfig
    BY DEF WInv
  <2>2. loaded = SetDefaults(DecodeWebhookConfiguration(EncodeWebhookConfiguration(cfg)))
    BY DEF WInv, StoredAsEncoded
  <2>3. QED
    BY <2>1, <2>2, LoadRoundTrip
<1>2. QED
  BY <1>1, WInvariant, PTL

=============================================================================
