SPECIFICATION Spec
CONSTANTS
  Sees <- MCSees
  Apis <- MCApis
PROPERTIES NeverAgain ReturnsWithoutRequestResources
