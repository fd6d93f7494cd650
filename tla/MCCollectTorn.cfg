SPECIFICATION Spec
CONSTANTS
    SceneLabels <- MCSceneLabels
    RequiredLabels <- MCRequiredLabels
    NoScenes = NoScenes
    Requests <- MCRequests
    Background <- MCBackground
    NoRequest = NoRequest
    MinStep = 1
    MaxWindow = 3
    MaxPoints = 3
    Epochs = {1, 2, 3}
    MaxLines = 7
    MaxRows = 3
INVARIANT
    TruncatedIsPartial
