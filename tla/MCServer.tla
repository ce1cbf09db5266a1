------------------------------ MODULE MCServer ------------------------------
(* Instances of Server. *)
EXTENDS Server

MCNames == {"m", "n", "p"}
MCFragile == {"m"}
MCFirstFiles == {"dag", "metrics"}
Model(name, version) ==
  [name |-> name, version |-> version, parsed |-> TRUE, plugin |-> TRUE, dynamic |-> FALSE,
   stateful |-> FALSE, loader |-> {}]
Pipeline(name, used) == [name |-> name, models |-> used, library |-> {}]
Graph(name, subconfig, list) ==
  [name |-> name, parsed |-> TRUE, valid |-> TRUE, subconfig |-> subconfig, models |-> list]

File(list, dags, mediapipe) ==
  [kind |-> "ok", metrics |-> TRUE, models |-> list, loaders |-> {}, libraries |-> {},
   opens |-> {}, pipelines |-> dags, graphs |-> mediapipe]
Broken(kind) == [File(<<>>, <<>>, <<>>) EXCEPT !.kind = kind]

m1 == Model("m", 1)
Auto(e) == [e EXCEPT !.dynamic = TRUE]
Unparsed(e) == [e EXCEPT !.parsed = FALSE]
WrongPlugin(e) == [e EXCEPT !.plugin = FALSE]
WithLoader(e) == [e EXCEPT !.loader = {"l"}]
WithLibrary(d) == [d EXCEPT !.library = {"y"}]

Dag == File(<<m1, Model("n", 1)>>, <<Pipeline("p", {"m"})>>, <<>>)

MCContents ==
  [dag |-> Dag,
   auto |-> File(<<Auto(m1), Model("n", 1)>>, <<Pipeline("p", {"n"})>>, <<>>),
   autoLoader |-> File(<<WithLoader(Auto(m1)), Model("n", 1)>>, <<Pipeline("p", {"n"})>>, <<>>),
   autoKept |-> File(<<Auto(m1)>>, <<Pipeline("p", {"m"})>>, <<>>),
   wrong |-> File(<<Unparsed(m1), WrongPlugin(Model("p", 1)), Model("n", 2)>>, <<>>, <<>>),
   graph |-> [File(<<Model("m", 2)>>, <<Pipeline("n", {"m"})>>,
                   <<Graph("p", "ok", <<Model("n", 1), m1>>)>>) EXCEPT !.opens = {"l"}],
   subconfig |-> File(<<m1>>, <<Pipeline("m", {"m"}), WithLibrary(Pipeline("n", {"m"})),
                        Pipeline("n", {"m"})>>,
                      <<Graph("p", "invalid", <<>>), Graph("p", "none", <<>>)>>),
   loader |-> [File(<<WithLoader(m1)>>, <<WithLibrary(Pipeline("p", {"m"}))>>, <<>>)
                 EXCEPT !.loaders = {{"l"}}, !.libraries = {{"y"}}, !.opens = {"l", "y"}],
   unloader |-> [File(<<WithLoader(m1), m1, Model("p", 1)>>, <<>>, <<>>) EXCEPT !.loaders = {{}}],
   cut |-> Broken("unparsable"),
   none |-> Broken("missing"),
   schema |-> Broken("badSchema"),
   metrics |-> [Dag EXCEPT !.metrics = FALSE]]

\* --config_path with a REST port, the settings of one model, and a wrong one.
ConfigFile ==
  [configPath |-> TRUE, modelPath |-> FALSE, modelParameters |-> FALSE, grpcWorkers |-> 1,
   restWorkers |-> 2, restWorkersSet |-> FALSE, port |-> 9000, restPort |-> 8000,
   metricsEnabled |-> FALSE, metricsList |-> FALSE, addresses |-> TRUE, cpuExtension |-> TRUE,
   logLevel |-> "INFO", sequenceOptions |-> FALSE, stateful |-> FALSE, pollWait |-> 1, model |-> "m",
   validModel |-> TRUE]
OneModel == [ConfigFile EXCEPT !.configPath = FALSE, !.modelPath = TRUE]

MCCommandLines ==
  {ConfigFile, OneModel, [OneModel EXCEPT !.restPort = 0, !.pollWait = 0],
   [OneModel EXCEPT !.validModel = FALSE], [ConfigFile EXCEPT !.port = 8000]}
=============================================================================
