CONSTANTS
    Supervisors <- MCSupervisors
    Handlers <- MCHandlers
    Gateways <- MCGateways
    Recognizers <- MCRecognizers
    Scenarios <- MCScenarios
SPECIFICATION Spec
CHECK_DEADLOCK FALSE
INVARIANTS
    OneGateway
    StoppedMeansStopped
PROPERTY
    ServicesComeBack
