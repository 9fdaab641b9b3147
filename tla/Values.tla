------------------------------- MODULE Values -------------------------------
(***************************************************************************)
(* The functions of go-wsman that keep no state of their own: what goes    *)
(* into a request, what is taken from an answer, what an enumeration is    *)
(* filtered by, and what the options of a client build.  A behaviour is    *)
(* one call: its arguments, then its answer, which the invariants compare  *)
(* with what the call is for.                                              *)
(***************************************************************************)
EXTENDS CimText, CimInterval, CimProperties, Lookups, ClientOptions,
        Placeholders, Integers, FiniteSets, Sequences, SequencesExt

CONSTANTS
  Durations,   \* the texts given for an interval
  Chars,       \* the characters of a value
  MaxText,     \* the length of a text
  Elements,    \* the elements of an answer
  MaxElements, \* how many an answer has
  Structs,     \* the structs written to the host
  Systems,     \* the computer systems of a host, in the order it lists them
  Settings,    \* its system settings
  DeviceLists, \* its devices
  NamesAsked,  \* the names and GUIDs a caller asks for
  Ports,       \* the sequences of physical adapters
  Switches,    \* the options of CreateSwitch
  Options,     \* the options of NewClient
  MaxOptions,  \* how many a client is given
  PoolSizes,   \* the sizes of a pooled client
  Secrets,     \* the values an answer has to be cleaned of
  MaxSecrets   \* how many there are in it

\* A CIM interval has as many digits of days as MaxDays.
ASSUME DurationsAssumption ==
  \A s \in Durations :
    /\ s \in [format : {"iso", "cim", "other"},
              days : Nat, hours : Nat, minutes : Nat, seconds : Nat]
    /\ s.format = "cim" => s.days <= MaxDays

\* A character is no reference: those are tokens of their own.
References == {"&amp;", "&lt;", "&gt;", "&#38;", "&#60;", "&#62;"} \cup Unobserved

ASSUME CharsAssumption ==
  /\ MaxText \in Nat /\ Chars \cap References = {}
  /\ Illegal \cap (References \cup {"&", "<", ">", Quote, "'", "TAB", "LF", "CR", Replacement}) = {}

\* The placeholder of a NULL holds a NUL character, which no text of an answer can.
Texts == STRING \ {Null}

ASSUME ElementsAssumption ==
  MaxElements \in Nat /\ \A e \in Elements : e.texts \in Seq(Texts)

\* Neither does a text of a struct.
ASSUME StructsAssumption ==
  \A s \in Structs :
    s \in [ElementName : Texts, Count : Numerals, Enabled : Booleans \cup {"unset"},
          Notes : Seq(Texts)]

\* An enumeration is a sequence.
ASSUME ListsAssumption ==
  \A s \in Systems \cup Settings \cup DeviceLists \cup Ports : s \in Seq(ToSet(s))

\* A device has an identifier of its own within its VM, of which only the order
\* counts, and is one of those the package lists; the host spells a GUID in one way.
Classes == {"ResourceAllocation", "StorageAllocation", "SyntheticEthernetPort",
            "EthernetPortAllocation", "BootSource", "GpuPartition", "Memory"}

ASSUME DevicesAssumption ==
  /\ \A s \in DeviceLists :
       /\ \A i, j \in DOMAIN s : s[i].owner = s[j].owner /\ s[i].id = s[j].id => i = j
       /\ \A d \in ToSet(s) :
            /\ d.id \in Nat /\ d.class \in Classes
            /\ d.class = "ResourceAllocation" => d.sub \in {"IDE", "SCSI", "Disk", "DVD"}
            /\ d.owner = [id |-> d.owner.id, spelling |-> "upper"]
  /\ \A n \in NamesAsked : n = [id |-> n.id, spelling |-> n.spelling]

\* A value is anonymised as one of its kind.
ASSUME SecretsAssumption ==
  MaxSecrets \in Nat /\ \A v \in Secrets : v.kind \in {"guid", "ip"}

\* The options of the package and their arguments.
ASSUME OptionsAssumption ==
  /\ MaxOptions \in Nat /\ PoolSizes \subseteq Int
  /\ \A o \in Options :
       /\ o = <<o[1], o[2]>>
       /\ o[1] \in {"WithHTTPClient", "WithNTLM", "WithCertificate", "WithCACert", "WithTimeout",
                   "WithRetry", "WithInsecureSkipVerify", "WithRecorder"}
       /\ o[1] = "WithHTTPClient" => o[2] \in {"http", "other", "nil"}
       /\ o[1] = "WithNTLM" => o[2] = TRUE
       /\ o[1] \in {"WithCertificate", "WithCACert"} => o[2] \in BOOLEAN
       /\ o[1] = "WithRecorder" => o[2] \in {"none", "usable", "unusable"}

VARIABLES
  call,        \* the function and its arguments
  answer       \* what it returned

vars == <<call, answer>>

NoCall == [op |-> "none"]

Init == call = NoCall /\ answer = NoCall

Calls(c, a) == call' = c /\ answer' = a

Upto(S, n) == UNION {[1 .. k -> S] : k \in 0 .. n}

----------------------------------------------------------------------------
WriteInterval ==
  \E s \in Durations :
    Calls([op |-> "interval", of |-> s], Iso8601ToCIMInterval(s))

WriteValue ==
  \E s \in Upto(Chars, MaxText), taken \in SUBSET Unobserved :
    Calls([op |-> "value", of |-> s], HostValue(CimValueEscape(s), taken))

WriteSections ==
  \E s \in Upto({"]", ">", "x"}, MaxText + 2) :
    Calls([op |-> "sections", of |-> s], Sections(CdataWrap(s)))

WritePath ==
  \E s, t \in Upto({"\\", Quote, "x"}, MaxText) :
    Calls([op |-> "path", of |-> <<s, t>>], PathValues(WmiObjectPath(<<s, t>>)))

ReadParent ==
  \E s \in Upto({Marker, Quote, "g"}, MaxText + 2) :
    Calls([op |-> "parent", of |-> s], ParentSnapshotID(s))

ReadInstance ==
  \E es \in Upto(Elements, MaxElements) :
    LET props == ExtractProperties(es)
    IN Calls([op |-> "instance", of |-> es],
             [properties |-> props, read |-> UnmarshalList(props)])

\* A method answered with a job, or with an instance it created, named by an
\* endpoint reference.
ReadReference ==
  \E uri \in {"", "Msvm_StorageJob"},
     selectors \in Upto([name : {"InstanceID", "CreationClassName"},
                         value : {"", "job", "class"}], 3) :
    LET epr == [uri |-> uri, selectors |-> selectors]
        response == ParseInvokeResponse(
          <<AsElement("Job", epr),
            [name |-> "ReturnValue", texts |-> <<"4096">>, nil |-> FALSE]>>)
    IN Calls([op |-> "reference", of |-> epr],
             [epr |-> PropertyEPR(epr), created |-> ExtractEndpointReference(epr),
              response |-> response, ref |-> Property(response.properties, "Job")])

\* A struct is written, and the host's embedded text of it is read again.
WriteAndRead ==
  \E s \in Structs :
    LET parsed == ParseEmbeddedInstance(MarshalEmbeddedInstance(s))
    IN Calls([op |-> "struct", of |-> s],
             IF parsed.err # "nil" THEN parsed ELSE UnmarshalList(parsed.properties))

\* An embedded instance with its properties in any shape.
ReadEmbedded ==
  \E es \in Upto([name : {"", "Notes", "Enabled"}, nested : BOOLEAN,
                  values : Upto({Null, "", "TRUE"}, 2)], 2) :
    Calls([op |-> "embedded", of |-> es], ParseEmbeddedInstance(es))

\* The devices of one VM, by all functions that list them.
DevicesOf(devices, vm) ==
  <<ListIDEControllers(devices, vm), ListSCSIControllers(devices, vm),
    ListDiskDrives(devices, vm), ListDvdDrives(devices, vm),
    ListAttachedStorage(devices, vm), ListNetworkAdapters(devices, vm),
    ListEthernetPortAllocations(devices, vm), ListBootSources(devices, vm),
    ListGpuAdapters(devices, vm)>>

\* A caller finds a VM by its display name and goes on with its GUID.
FindVm ==
  \E systems \in Systems, name \in NamesAsked :
    Calls([op |-> "find", systems |-> systems, name |-> name],
          [found |-> FindComputerSystemByElementName(systems, name),
           all   |-> ListComputerSystems(systems)])

\* A caller lists what belongs to a GUID, spelled as the host does or not.
ListOf ==
  \E settings \in Settings, devices \in DeviceLists, guid \in NamesAsked :
    Calls([op |-> "list", settings |-> settings, devices |-> devices, name |-> guid],
          [setting     |-> GetSystemSettingData(settings, guid),
           all         |-> ListSystemSettingData(settings),
           checkpoints |-> ListVmCheckpoints(settings, guid),
           devices     |-> DevicesOf(devices, guid),
           memory      |-> GetFirst(devices, guid, "Memory")])

FindController ==
  \E devices \in DeviceLists, guid \in NamesAsked, type \in {"IDE", "SCSI", "FC"},
     number \in -1 .. 2, location \in {-1, 0, 1, 2, 63, 64} :
    Calls([op |-> "controller", devices |-> devices, name |-> guid, type |-> type,
           number |-> number, location |-> location],
          ControllerOf(devices, guid, type, number, location))

MakeSwitch ==
  \E o \in Switches, p \in Ports, systems \in Systems :
    Calls([op |-> "switch", opts |-> o, ports |-> p, systems |-> systems],
          BuildSwitchResourceSettings(o, p, systems))

MakeClient ==
  \E endpoint \in {"url", "other"}, options \in Upto(Options, MaxOptions) :
    Calls([op |-> "client", endpoint |-> endpoint, of |-> options], NewClient(endpoint, options))

MakePool ==
  \E size \in PoolSizes, endpoint \in {"url", "other"}, options \in Upto(Options, MaxOptions) :
    Calls([op |-> "pool", size |-> size, endpoint |-> endpoint, of |-> options],
          NewPooledClient(size, endpoint, options))

CleanAnswer ==
  \E s \in Upto(Secrets, MaxSecrets) :
    LET a == Anonymized(s)
    IN Calls([op |-> "secrets", of |-> s], [i \in DOMAIN s |-> ReplacementOf(a, s[i])])

Next ==
  /\ call.op = "none"
  /\ \/ WriteInterval \/ WriteValue \/ WriteSections \/ WritePath \/ ReadParent
     \/ ReadInstance \/ ReadReference \/ WriteAndRead \/ ReadEmbedded
     \/ FindVm \/ ListOf \/ FindController \/ MakeSwitch \/ MakeClient \/ MakePool
     \/ CleanAnswer

Spec == Init /\ [][Next]_vars
----------------------------------------------------------------------------
Seconds(s) == s.days * 86400 + s.hours * 3600 + s.minutes * 60 + s.seconds

InRange(s) == s.days <= MaxDays /\ s.hours < 24 /\ s.minutes < 60 /\ s.seconds < 60

CanBeWritten(s) ==
  \/ s.format = "cim" /\ InRange(s)
  \/ /\ s.format = "iso" /\ \A f \in Fields(s) : f <= MaxDays
     /\ Seconds(s) \div 86400 <= MaxDays

\* A duration that is written (cimtag.go:84) is as long as the one that was
\* given and has every field in its digits; one that has no such form is an
\* error, never a wrong interval: the bound on the fields keeps the product
\* from overflowing into a number that looks like few days.
IntervalKept ==
  call.op = "interval" =>
    IF CanBeWritten(call.of)
      THEN InRange(answer) /\ Seconds(answer) = Seconds(call.of)
      ELSE answer.format = "error"

\* A value as XML can hold it.
Legal(s) == [i \in DOMAIN s |-> IF s[i] \in Illegal THEN Replacement ELSE s[i]]

\* Hyper-V reads a value as it was, but for the characters that no XML can hold,
\* which are replaced and spoil nothing else (embedded.go:372-375): markup
\* reaches its parser as numeric references, which alone it understands
\* (embedded.go:352).  Only a value with quotes, apostrophes or white space other
\* than blanks may be refused, whose references nobody has seen it take
\* (embedded.go:366-367).
ValueArrives(s, a) ==
  \/ a = Legal(s)
  \/ a = <<"refused">> /\ \E i \in DOMAIN s : s[i] \in {Quote, "'", "TAB", "LF", "CR"}

\* So values arrive, and "]]>" does not end the section it stands in
\* (embedded.go:287).
TextArrives ==
  /\ call.op = "value" => ValueArrives(call.of, answer)
  /\ call.op = "sections" => answer.ok /\ ~answer.open /\ answer.text = call.of

\* The parent of a checkpoint is what stands between its marker and the next
\* quote, or nothing (checkpoint.go:247).
ParentRead(s, a) ==
  LET spans == {x \in (DOMAIN s) \X (DOMAIN s) :
                  /\ x[1] < x[2] /\ s[x[1]] = Marker /\ s[x[2]] = Quote
                  /\ \A k \in 1 .. x[1] - 1 : s[k] # Marker
                  /\ \A k \in x[1] + 1 .. x[2] - 1 : s[k] # Quote}
  IN IF spans = {} THEN a = <<>>
     ELSE \A span \in spans : a = SubSeq(s, span[1] + 1, span[2] - 1)

\* The quoted keys of an object path end where they were meant to, whatever
\* backslashes and quotes are in them (epr.go:70), and a parent is read.
PathsRead ==
  /\ call.op = "path" => answer = call.of
  /\ call.op = "parent" => ParentRead(call.of, answer)

----------------------------------------------------------------------------
\* What the host means by an element: its last text that is not empty.
Meant(e) ==
  LET full == {i \in DOMAIN e.texts : e.texts[i] # ""}
  IN IF full = {} THEN "" ELSE e.texts[Max(full)]

\* A NULL in an array keeps its place, so that arrays that run in parallel
\* (addresses and their masks) stay aligned (enumerate.go:351); an empty
\* element that is no NULL has none.
Aligned(es, properties) ==
  \A n \in Names(es) :
    LET placed == {i \in DOMAIN es : es[i].name = n /\ (Meant(es[i]) # "" \/ es[i].nil)}
        place(i) == Cardinality({j \in placed : j <= i})
    IN (\E i \in placed : Meant(es[i]) # "") =>
         /\ n \in DOMAIN properties
         /\ Len(properties[n]) = Cardinality(placed)
         /\ \A i \in placed : properties[n][place(i)] = Meant(es[i])

ArraysAligned == call.op = "instance" => Aligned(call.of, answer.properties)

\* The names of which the host sends a value.
Given(es) == {es[i].name : i \in {j \in DOMAIN es : Meant(es[j]) # ""}}

\* A property of which the host sends nothing but NULLs is absent: its field
\* stays as it is, and a NULL number does not make the answer unreadable
\* (enumerate.go:344, unmarshal.go:60).
NullsUnset(es, a) ==
  /\ DOMAIN a.properties = Given(es)
  /\ a.read.err # "nil" => Given(es) # {}
  /\ a.read.err = "nil" =>
       \A f \in DOMAIN Zero : f \notin Given(es) => a.read.fields[f] = Zero[f]

NullStaysUnset == call.op = "instance" => NullsUnset(call.of, answer)

\* What an answer refers to is found again: a reference keeps the class and
\* every selector (invoke.go:37, create.go:98), and when its only selector is
\* the InstanceID, the text the element is folded to is that ID (get.go:104),
\* which is what WaitForJob is given as the job.
RefersTo(epr, a) ==
  LET named == epr.selectors
      final(i) == \A j \in DOMAIN named : j > i => named[j].name # named[i].name
  IN /\ a.epr.found <=> epr.uri # ""
     /\ a.epr.found =>
          /\ a.epr.uri = epr.uri
          /\ \A i \in DOMAIN named :
               final(i) => a.epr.selectors[named[i].name] = named[i].value
     /\ \A i \in DOMAIN named :
          (final(i) /\ named[i].value # "") =>
            a.created.selectors[named[i].name] = named[i].value
     /\ (Len(named) = 1 /\ named[1].value # "") => a.ref = named[1].value
     /\ a.response.returnValue = "4096"
     /\ "ReturnValue" \notin DOMAIN a.response.properties

ReferenceKept == call.op = "reference" => RefersTo(call.of, answer)

\* A struct that is written comes back as it was: a zero value is left out and
\* is zero when it is read, a pointer tells FALSE from nothing, an array keeps
\* its empty entries (embedded.go:218, 34).
ReadBack(s, a) ==
  IF s = Zero THEN a.err = "empty" ELSE a.err = "nil" /\ a.fields = s

WrittenReadBack == call.op = "struct" => ReadBack(call.of, answer)

\* The VALUEs of one property: the k-th of element i is at <<i, k>>.
ValuePlaces(es, n) ==
  UNION {{<<i, k>> : k \in DOMAIN es[i].values} : i \in {j \in DOMAIN es : es[j].name = n}}

\* How many of some places there are up to y.
Ordinal(places, y) ==
  Cardinality({x \in places : x[1] < y[1] \/ (x[1] = y[1] /\ x[2] <= y[2])})

\* A property inside another is never read as half of it (embedded.go:35), and
\* the values of an array are neither joined nor moved (embedded.go:40).
Unjoined(es, a) ==
  LET read(n) == \E x \in ValuePlaces(es, n) : es[x[1]].values[x[2]] # Null
      value(v) == IF v = Null THEN "" ELSE v
  IN /\ (\E i \in DOMAIN es : es[i].nested) => a.err # "nil"
     /\ a.err = "nil" =>
          \A n \in Names(es) \ {""} : read(n) =>
            LET at == ValuePlaces(es, n)
            IN /\ n \in DOMAIN a.properties /\ Len(a.properties[n]) = Cardinality(at)
               /\ \A y \in at :
                    a.properties[n][Ordinal(at, y)] = value(es[y[1]].values[y[2]])

EmbeddedKept == call.op = "embedded" => Unjoined(call.of, answer)

----------------------------------------------------------------------------
\* A VM that exists is not reported absent for the case of its name, and one
\* of several of the same name is never picked (client.go:67); the host, whose
\* name counts as well, is not among the VMs that are listed (client.go:148).
FindSound(systems, name, a) ==
  LET bearing == {i \in DOMAIN systems : systems[i].element.id = name.id}
  IN /\ a.found.err = (IF bearing = {} THEN "notFound"
                       ELSE IF Cardinality(bearing) > 1 THEN "ambiguous" ELSE "nil")
     /\ a.found.err = "nil" => \A i \in bearing : a.found.system = systems[i]
     /\ ToSet(a.all) = {s \in ToSet(systems) : s.guid}

\* No list holds what belongs to another VM or a checkpoint for the VM itself,
\* however the GUID is spelled; spelled as the host does it every device is
\* in one list, the two ways of comparing (vm.go:24, client.go:136)
\* notwithstanding.
SettingsOwn(settings, name, a) ==
  LET own == {s \in ToSet(settings) : s.vm.id = name.id}
  IN /\ a.setting.err = "nil" => a.setting.setting \in own
     /\ a.setting.err = "nil" <=> \E s \in own : s.type = "Realized"
     /\ a.setting.err = "nil" => a.setting.setting.type = "Realized"
     /\ ToSet(a.checkpoints) = {s \in own : s.type = "Snapshot:Realized"}
     /\ ToSet(a.all) = {s \in ToSet(settings) : s.type = "Realized"}

DevicesOwn(devices, name, a) ==
  LET lists == a.devices
  IN /\ \A l \in DOMAIN lists : \A d \in ToSet(lists[l]) : d.owner.id = name.id
     /\ name.spelling = "upper" =>
          \A d \in ToSet(devices) :
            d.owner.id = name.id =>
              IF d.class = "Memory" THEN a.memory.err = "nil"
              ELSE Cardinality({l \in DOMAIN lists : Contains(lists[l], d)}) = 1

\* The controller of a number is the same in whatever order the host lists
\* them (storage.go:15), and a drive is asked for only at a location the kind
\* of controller has (storage.go:405).
ControllerByNumber(devices, name, type, number, location, a) ==
  LET same == {d \in ToSet(devices) :
                 d.owner = name /\ d.class = "ResourceAllocation" /\ d.sub = type}
      legal == 0 .. (CASE type = "IDE" -> 1 [] type = "SCSI" -> 63 [] OTHER -> -1)
  IN IF location \in legal /\ number \in 0 .. Cardinality(same) - 1
       THEN /\ a.err = "nil" /\ a.controller \in same
            /\ Cardinality({d \in same : d.id < a.controller.id}) = number
       ELSE a.err # "nil"

Ends(settings) == {<<settings[i].kind, settings[i].to>> : i \in DOMAIN settings}

Hosts(systems) == {s.name.id : s \in {t \in ToSet(systems) : ~t.guid}}

Adapters(o, ports) == {p.id : p \in {q \in ToSet(ports) : q.element = o.externalAdapter}}

\* The settings a of a switch have the ends its options o call for.
SwitchRight(o, ports, systems, a) ==
  LET ends == Ends(a.settings)
      internal == {e \in ends : e[1] = "internal"}
      external == {e \in ends : e[1] = "external"}
  IN a.err = "nil" =>
       /\ internal = IF o.type = "Internal" \/ (o.type = "External" /\ o.allowManagementOS)
                     THEN {<<"internal", h>> : h \in Hosts(systems)} ELSE {}
       /\ Cardinality(external) = IF o.type = "External" THEN 1 ELSE 0
       /\ \A e \in external : e[2] \in Adapters(o, ports)

\* A switch connects what its type promises (switch.go:23) and nothing else:
\* the adapter of the name that was asked for, and the host if and only if
\* the switch is internal or the host is let in.
SwitchAsAsked ==
  call.op = "switch" => SwitchRight(call.opts, call.ports, call.systems, answer)

----------------------------------------------------------------------------
Deferred == {"WithTimeout", "WithRetry", "WithInsecureSkipVerify", "WithRecorder"}

\* An option that leaves a wish may stand anywhere among the others
\* (client.go:131, 213): a client is the same if all of them come last.
WishesMayComeAnywhere(endpoint, o, a) ==
  a = NewClient(endpoint, Among(o, {x \in ToSet(o) : x[1] \notin Deferred})
                          \o Among(o, {x \in ToSet(o) : x[1] \in Deferred}))

\* The options that replace the HTTP client, and the last of them: 0 if there
\* is none.
Replaces(o) ==
  \/ o[1] \in {"WithNTLM", "WithHTTPClient"}
  \/ o[1] = "WithCertificate" /\ o[2]

LastReplacing(o) ==
  LET replacing == {i \in DOMAIN o : Replaces(o[i])}
  IN IF replacing = {} THEN 0
     ELSE CHOOSE i \in replacing : \A j \in replacing : j <= i

\* A CA is given after the last of them.
CaGiven(o) == \E i \in DOMAIN o : o[i][1] = "WithCACert" /\ i > LastReplacing(o)

\* A CA is trusted only if it was given and no later option replaced the HTTP
\* client it was added to; it is trusted, whatever else is given, by a client
\* with a certificate, by one of the caller's with an *http.Transport, and by one
\* made for it (client.go:222-225).  Under NTLM the code drops the CA without an
\* error (client.go:271), against those lines: nothing is claimed of it.  A
\* certificate stays when a CA is added.
CaTrusted(o, a) ==
  LET last == LastReplacing(o)
      reached == \/ last = 0 \/ o[last][1] = "WithCertificate"
                 \/ o[last][1] = "WithHTTPClient" /\ o[last][2] = "http"
  IN a.err = "nil" =>
       /\ a.http.ca => CaGiven(o)
       /\ CaGiven(o) /\ reached => a.http.ca
       /\ a.http.cert <=> (last # 0 /\ o[last][1] = "WithCertificate")

\* Skipping the verification of certificates takes effect whenever it is asked
\* for and the transport can be reached, also under NTLM and with a recorder
\* (client.go:93), and never when it is not asked for; a recorder is there when
\* the last WithRecorder names a directory.
SkipTakesEffect(o, a) ==
  LET last(n, i) == o[i][1] = n /\ \A j \in DOMAIN o : j > i => o[j][1] # n
  IN a.err = "nil" =>
       /\ a.http.skip <=> /\ \E i \in DOMAIN o : o[i][1] = "WithInsecureSkipVerify"
                          /\ a.http.base = "http"
       /\ a.http.recorder <=> \E i \in DOMAIN o : last("WithRecorder", i) /\ o[i][2] # "none"

\* A pooled client has as many slots as it was asked for, each made as a client
\* of its own is, and none has a recorder that nobody could stop
\* (pool.go:51-63).
PoolOfClients(size, endpoint, o, a) ==
  a.err = "nil" =>
    /\ size > 0 /\ DOMAIN a.slots = 1 .. size
    /\ \A i \in 1 .. size :
         a.slots[i] = NewClient(endpoint, o) /\ a.slots[i].err = "nil" /\ ~a.slots[i].http.recorder

----------------------------------------------------------------------------
\* What the values s are replaced by tells them apart.
Distinct(s, by) ==
  LET ips == {s[i].id : i \in {j \in DOMAIN s : s[j].kind = "ip"}}
      enough == Cardinality(ips) <= PerRange * Ranges
  IN \A i, j \in DOMAIN s :
       /\ s[i].kind = "ip" => by[i].range \in 1 .. Ranges /\ by[i].host \in 1 .. PerRange
       /\ (s[i].kind = s[j].kind /\ (s[i].kind = "ip" => enough)) =>
            (by[i] = by[j] <=> s[i].id = s[j].id)

\* One value has one placeholder however it is spelled, two values of a kind
\* have two as long as there are addresses left, and every placeholder of an
\* address is one (record.go:109); values of another kind use up none.
PlaceholdersDistinct == call.op = "secrets" => Distinct(call.of, answer)

\* Texts reach the host and are read back as they were given, if XML can hold
\* them: values through both escapes and a CDATA section, keys and snapshots
\* through their paths (embedded.go:287, 352-389, epr.go:70, checkpoint.go:247).
TextsArrive == TextArrives /\ PathsRead

\* What is read of an answer is what the host said: arrays keep their positions,
\* NULL leaves a field unset, a reference is found in either form
\* (enumerate.go:344-377, unmarshal.go:60, invoke.go:37, create.go:98).
AnswersRead == ArraysAligned /\ NullStaysUnset /\ ReferenceKept

\* Embedded instances survive both ways: what is written is read back but for
\* zeroes, and an instance inside another is not taken for part of it
\* (embedded.go:35-40, 218).
EmbeddedSurvives == WrittenReadBack /\ EmbeddedKept

\* A lookup answers with what was asked for, refuses what is ambiguous, and
\* lists nothing of another VM (client.go:67, 136, vm.go:24, storage.go:15, 405).
LookupsSound ==
  /\ call.op = "find" => FindSound(call.systems, call.name, answer)
  /\ call.op = "list" => /\ SettingsOwn(call.settings, call.name, answer)
                         /\ DevicesOwn(call.devices, call.name, answer)
  /\ call.op = "controller" =>
       ControllerByNumber(call.devices, call.name, call.type, call.number, call.location, answer)

\* Options that leave a wish are honoured in whatever order they are given; a CA
\* is trusted by the clients it can be added to and no other CA is; verification
\* is skipped exactly when that was asked for and can be; a pool is made of such
\* clients (client.go:93-131, 213-248, pool.go:51-63).
OptionsHonoured ==
  /\ call.op = "client" =>
       /\ WishesMayComeAnywhere(call.endpoint, call.of, answer)
       /\ CaTrusted(call.of, answer) /\ SkipTakesEffect(call.of, answer)
  /\ call.op = "pool" => PoolOfClients(call.size, call.endpoint, call.of, answer)
=============================================================================
