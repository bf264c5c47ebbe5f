-------------------------- MODULE MCModuleRegistry --------------------------
(* ModuleRegistry on a small instance: modules without callbacks, modules  *)
(* with some and with all of them.                                         *)
EXTENDS ModuleRegistry

MCShapes ==
  {{}, {"success", "failure"}, {"init", "success", "cleanup"}, Callbacks}
=============================================================================
