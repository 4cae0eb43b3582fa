----------------------------- MODULE MCNodeSide -----------------------------
(***************************************************************************)
(* For TLC: the etcd client with an endpoint that always answers, and the  *)
(* parts that place and run a pod: the scheduler's tables, the runtime and *)
(* the kubelet with their virtual machines, instances and probes.  They    *)
(* share no state, so which of them moves is chosen at the start.          *)
(***************************************************************************)
EXTENDS EtcdClient, NodeScheduler, Instances, Probes, KubeletRuntime

VARIABLE focus

NodeParts == {"etcd client", "scheduler", "instances", "instance", "probe manager", "pod probes", "probe table",
              "kubelet probes", "runtime", "kubelet"}

\* Values of the constants.
MCAnomalies == Kinds \X {"TIMEOUT", "http_error", "garbage", "omit"}
MCPodSpecs ==
    {[name |-> "p", cpu |-> 1, memory |-> 1, affinity |-> 0, anti |-> 1, required |-> {},
      preferred |-> {"disk"}, tolerates |-> {}],
     [name |-> "q", cpu |-> 2, memory |-> 1, affinity |-> 1, anti |-> 0, required |-> {"disk"},
      preferred |-> {}, tolerates |-> {"dedicated"}]}
MCSizes == {[cpus |-> 2, memory |-> 4]}
MCWeights == {[packing |-> 40, spread |-> 30, affinity |-> w] : w \in {20, 30}}

MCProbeConfig(type, handler, up, down) ==
    [type |-> type, handler |-> handler, up |-> up, down |-> down]
MCProbeConfigs == {MCProbeConfig("STARTUP", "tcp", 2, 2), MCProbeConfig("LIVENESS", "tcp", 1, 0),
                   MCProbeConfig("READINESS", "exec", 3, 1)}
MCProbeSpecs == {[handler |-> "http", delay |-> 1, up |-> 2, down |-> 2],
                 [handler |-> "tcp", delay |-> 0, up |-> 1, down |-> 1]}
MCVolumes == {{}, {"c"}}

machineVars == <<inVars, imVars, prVars, kuVars>>
allVars == <<focus, vars, skVars, machineVars>>

NodeSideInit ==
    /\ focus \in NodeParts
    /\ Init /\ scheduler_new /\ InInit /\ PrInit /\ KuInit
    \* what a part that never moves starts with makes no difference
    /\ focus # "scheduler" => skWeights = CHOOSE w \in SkWeights : TRUE
    /\ focus \notin {"runtime", "kubelet"} => kuRuntime

-----------------------------------------------------------------------------
ProbeSteps ==
    \/ focus = "probe manager" /\ PrManagerNext
    \/ focus = "pod probes" /\ PrPodNext
    \/ focus = "probe table" /\ PrTableNext
    \/ focus = "kubelet probes" /\ PrKubeletNext

MachineSteps ==
    \/ focus = "instances" /\ InNext /\ UNCHANGED <<imVars, prVars, kuVars>>
    \/ focus = "instance" /\ ImNext /\ UNCHANGED <<inVars, prVars, kuVars>>
    \/ ProbeSteps /\ UNCHANGED <<inVars, imVars, kuVars>>
    \/ focus = "runtime" /\ RuntimeNext /\ UNCHANGED <<inVars, imVars, prVars>>
    \/ focus = "kubelet" /\ KubeletNext /\ UNCHANGED <<inVars, imVars, prVars>>

NodeSideNext ==
    /\ UNCHANGED focus
    /\ \/ focus = "etcd client" /\ Next /\ UNCHANGED <<skVars, machineVars>>
       \/ focus = "scheduler" /\ SkNext /\ UNCHANGED <<vars, machineVars>>
       \/ MachineSteps /\ UNCHANGED <<vars, skVars>>

NodeSideSpec == NodeSideInit /\ [][NodeSideNext]_allVars

=============================================================================
