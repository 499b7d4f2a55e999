---------------------------- MODULE MCLoaderInit ----------------------------
(***************************************************************************)
(* Small instances of LoaderInit for TLC: four of the libraries that       *)
(* discovery looks for, or two drivers of ZE_ENABLE_ALT_DRIVERS.           *)
(***************************************************************************)
EXTENDS LoaderInit, TLC

MCDevices ==
  [gpu |-> {"integrated"}, legacy |-> {"discrete"}, vpu |-> {"npu"}, npu |-> {"npu"},
   alt1 |-> {"integrated", "discrete", "npu"}, alt2 |-> {"discrete", "integrated"}]

MCAdvertised ==
  [gpu |-> GPU, legacy |-> GPU, vpu |-> NPU, npu |-> NPU, alt1 |-> FORCE_UINT32, alt2 |-> FORCE_UINT32]

\* ZEL_DRIVERS_ORDER: "", "3,NPU", "GPU:1,NPU:1".
MCOrders ==
  {<<>>,
   <<[types |-> DriverType, index |-> 3], [types |-> {NPU, OTHER_TYPE}, index |-> None]>>,
   <<[types |-> {GPU, MIXED}, index |-> 1], [types |-> {NPU, OTHER_TYPE}, index |-> 1]>>}

Environment(discoveries, brokens, pci, orders) ==
  [discovered : discoveries, broken : brokens, pciOrderingRequested : pci, order : orders]

Known == {<<"gpu", "legacy", "vpu", "npu">>}
Alternatives == {<<"alt1", "alt2">>}

MCEnvironments ==
  Environment(Known, {{}, {"legacy"}}, {FALSE}, MCOrders)
    \cup Environment(Alternatives, {{}}, {FALSE}, {<<>>})
    \cup Environment({<<"gpu", "legacy">>}, {{}}, {TRUE}, {<<>>})

\* ZE_ENABLE_PCI_ID_DEVICE_ORDER, with a GPU's driver and an NPU's.
MCPciOrder == Environment({<<"gpu", "npu">>}, {{}}, {TRUE}, {<<>>})

\* The same drivers with either order.
MCEither == Environment({<<"gpu", "npu">>}, {{}}, BOOLEAN, {<<>>})

=============================================================================
