SPECIFICATION TemplatesSpec
CONSTANTS
    Templates = {1, 2}
    TemplateApps <- TwoApps
    TemplateItems <- ThreeItems
    TemplateTriggers <- ThreeTriggers
    Ips = {"ip1"}
    Keys = {"load"}
    Deleted = Deleted
    MaxHosts = 2
    MaxEdits = 2
INVARIANT UnlinkedCleared
CHECK_DEADLOCK FALSE
