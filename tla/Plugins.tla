------------------------------- MODULE Plugins -------------------------------
(***************************************************************************)
(* What the gateway learns from its plugins when it loads them: which      *)
(* interfaces each implements (pkg/plugins, pkg/machinery/plugins.go, and  *)
(* the GRPCServer and GRPCClient of pkg/plugins/apis), which capability    *)
(* backends there are (NewGateway and pkg/capabilities/store.go), and the  *)
(* install command of a capability (pkg/capabilities/template.go).         *)
(*                                                                         *)
(* A binary is [meta, starts, scheme]: whether its build information can   *)
(* be read, whether the process starts, and the IDs of its own scheme. A   *)
(* directory is [readable, binaries], with the sequence of its plugin_*    *)
(* binaries.                                                               *)
(***************************************************************************)
EXTENDS Naturals, SequencesExt

-----------------------------------------------------------------------------
(* Schemes and interfaces.                                                 *)

\* Filled by the init functions of the packages of pkg/plugins/apis.
ClientScheme == {"GatewayAPIExtension", "ManagementAPIExtension", "System",
                 "Capability", "Metrics"}

\* GRPCServer: the gRPC services a plugin registers for an ID of its scheme.
\* The key-value store is served by the gateway, not by the plugin.
Registers(id) ==
    CASE id = "GatewayAPIExtension" -> {"apiextensions.GatewayAPIExtension"}
      [] id = "ManagementAPIExtension" -> {"apiextensions.ManagementAPIExtension", "own service"}
      [] id = "System" -> {"system.System"}
      [] id = "Capability" -> {"capability.Backend"}
      [] id = "Metrics" -> {"collector.RemoteCollector"}

Services(binary) == UNION {Registers(id) : id \in binary.scheme}

\* The services listed by the reflection service of the plugin.
CheckAvailability(binary, service) == service \in Services(binary)

\* GRPCClient: an ID is dispensed if one of its services is there.
Dispenses(binary, id) ==
    CASE id = "System" -> \/ CheckAvailability(binary, "system.System")
                          \/ CheckAvailability(binary, "system.KeyValueStore")
      [] id = "GatewayAPIExtension" -> CheckAvailability(binary, "apiextensions.GatewayAPIExtension")
      [] id = "ManagementAPIExtension" ->
            CheckAvailability(binary, "apiextensions.ManagementAPIExtension")
      [] id = "Capability" -> CheckAvailability(binary, "capability.Backend")
      [] id = "Metrics" -> CheckAvailability(binary, "collector.RemoteCollector")

\* The IDs come in the order of a map: an arbitrary one.
LoadID(active, binary, id) ==
    IF Dispenses(binary, id) THEN [active EXCEPT ![id] = Append(@, binary)] ELSE active

Load(active, binary, order) ==
    IF ~binary.starts THEN active
    ELSE FoldLeft(LAMBDA a, id : LoadID(a, binary, id), active, order)

NewPluginLoader == [id \in ClientScheme |-> <<>>]

\* A directory that cannot be read is skipped, as is a binary without metadata;
\* one that does not start is counted nevertheless.
LoadPlugins(dirs, order) ==
    LET found == SelectSeq(FlattenSeq([i \in DOMAIN dirs |-> IF dirs[i].readable THEN dirs[i].binaries ELSE <<>>]),
                           LAMBDA b : b.meta)
    IN  [active |-> FoldLeft(LAMBDA a, b : Load(a, b, order), NewPluginLoader, found),
         numLoaded |-> Len(found)]

DispenseAll(loader, id) == loader.active[id]

-----------------------------------------------------------------------------
(* Capability backends, by name.                                           *)

NewBackendStore == [n \in {} |-> ""]

Add(store, name, backend) ==
    IF name \in DOMAIN store THEN store
    ELSE [n \in DOMAIN store \cup {name} |-> IF n = name THEN backend ELSE store[n]]

\* NewGateway: a plugin whose Info fails, or whose name is taken, is left out.
AddBackends(plugins) ==
    FoldLeft(LAMBDA s, p : IF p.info THEN Add(s, p.name, p) ELSE s, NewBackendStore, plugins)

Has(store, name) == name \in DOMAIN store
List(store) == DOMAIN store

-----------------------------------------------------------------------------
(* Install commands. A template is a sequence of items: text, a field of   *)
(* the spec, or an arg with its kind and arguments. An argument is         *)
(* [plus, name, colon, value]: an option with the word its name begins     *)
(* with, or a plain one.                                                   *)

OptionOk(o) ==
    CASE o.name \in {"required", "omitEmpty"} -> ~o.colon
      [] o.name \in {"default", "format"} -> o.colon
      [] OTHER -> FALSE

extractOptions(args) ==
    LET options == SelectSeq(args, LAMBDA a : a.plus)
    IN  [ok |-> \A i \in DOMAIN options : OptionOk(options[i]),
         options |-> [i \in DOMAIN options |-> [Name |-> options[i].name, Value |-> options[i].value]],
         remaining |-> SelectSeq(args, LAMBDA a : ~a.plus)]

\* The number of arguments a kind needs. A kind that is not known needs none,
\* and is rendered with nothing but its name and options.
MinArgs(kind) ==
    CASE kind \in {"input", "toggle"} -> 1 [] kind = "select" -> 2 [] OTHER -> 0

Arg(kind, args) ==
    LET x == extractOptions(args)
    IN  IF ~x.ok \/ Len(x.remaining) < MinArgs(kind) THEN [ok |-> FALSE]
        ELSE [ok |-> TRUE, kind |-> kind, options |-> x.options,
              label |-> IF MinArgs(kind) = 0 THEN <<>> ELSE <<x.remaining[1].value>>,
              items |-> IF kind = "select" THEN Tail(x.remaining) ELSE <<>>]

\* Execute: what the items become with the spec.
Item(item, spec) ==
    CASE item.is = "text" -> [ok |-> TRUE, text |-> item.text]
      [] item.is = "field" -> [ok |-> TRUE, text |-> spec[item.field]]
      [] item.is = "arg" -> Arg(item.kind, item.args)

Execute(tmpl, spec) ==
    LET out == [i \in DOMAIN tmpl |-> Item(tmpl[i], spec)]
    IN  IF \A i \in DOMAIN out : out[i].ok THEN [ok |-> TRUE, out |-> out] ELSE [ok |-> FALSE]

\* RenderInstallerCommand parses into the one template of the package and
\* then executes it. Two calls with templates t1 and t2 may interleave: the
\* order says whose step comes next.
RenderOrders == {<<1, 1, 2, 2>>, <<1, 2, 1, 2>>, <<1, 2, 2, 1>>,
                 <<2, 1, 1, 2>>, <<2, 1, 2, 1>>, <<2, 2, 1, 1>>}
IsParse(order, i) == \A j \in 1 .. i - 1 : order[j] # order[i]
Parsed(order, c) ==
    LET at == CHOOSE i \in 1 .. 4 : order[i] = c /\ ~IsParse(order, i)
        parses == {i \in 1 .. at - 1 : IsParse(order, i)}
    IN  order[CHOOSE i \in parses : \A j \in parses : j <= i]

RenderInstallerCommand(tmpls, specs, order, c) == Execute(tmpls[Parsed(order, c)], specs[c])

RenderInstaller(store, name, spec) ==
    IF ~Has(store, name) THEN [ok |-> FALSE]
    ELSE RenderInstallerCommand([c \in 1 .. 2 |-> store[name].template],
                                [c \in 1 .. 2 |-> spec], <<1, 1, 2, 2>>, 1)

-----------------------------------------------------------------------------
(* The plugins of this repository: their schemes and their templates.      *)

Schemes ==
    [cortex |-> {"Capability", "Metrics", "System", "GatewayAPIExtension", "ManagementAPIExtension"},
     logging |-> {"System", "GatewayAPIExtension", "Capability"},
     example |-> {"ManagementAPIExtension", "System", "GatewayAPIExtension", "Capability"}]

Plain(value) == [plus |-> FALSE, name |-> "", colon |-> FALSE, value |-> value]
Flag(name) == [plus |-> TRUE, name |-> name, colon |-> FALSE, value |-> ""]
Option(name, value) == [plus |-> TRUE, name |-> name, colon |-> TRUE, value |-> value]
Text(text) == [is |-> "text", text |-> text]
Field(field) == [is |-> "field", field |-> field]
Control(kind, args) == [is |-> "arg", kind |-> kind, args |-> args]

MetricsTemplate ==
    <<Text("helm install"),
      Control("input", <<Plain("Namespace"), Flag("omitEmpty"),
                         Option("default", "opni-monitoring-agent"), Option("format", "-n")>>),
      Text("chart"), Field("Token"), Field("Pin"), Field("Address"),
      Control("toggle", <<Plain("Install Prometheus Operator"), Flag("omitEmpty"),
                          Option("default", "false"), Option("format", "--set")>>),
      Text("--create-namespace")>>

LogsTemplate(opensearchCluster) ==
    <<Text("opnictl bootstrap logging"),
      Control("input", <<Plain("Opensearch Cluster Name"), Flag("required"),
                         Option("default", opensearchCluster)>>),
      Control("select", <<Plain("Kubernetes Provider"), Plain(""), Plain("rke"), Plain("rke2"),
                          Plain("k3s"), Plain("aks"), Plain("eks"), Plain("gke"),
                          Flag("omitEmpty"), Option("format", "--provider")>>),
      Field("Token"), Field("Pin"), Field("Address")>>

ExampleTemplate ==
    <<Text("foo"),
      Control("input", <<Plain("Input"), Flag("omitEmpty"), Option("default", "default"),
                         Option("format", "--bar")>>),
      Control("toggle", <<Plain("Toggle"), Flag("omitEmpty"), Option("default", "false"),
                          Option("format", "--reticulateSplines")>>),
      Control("select", <<Plain("Select"), Plain(""), Plain("foo"), Plain("bar"), Plain("baz"),
                          Flag("omitEmpty"), Option("default", "foo"), Option("format", "--select")>>)>>
=============================================================================
