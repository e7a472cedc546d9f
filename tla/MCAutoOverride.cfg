SPECIFICATION Spec
CONSTANTS
  STOP_CM = 22
  CLEAR_CM = 30
  IMPROVEMENT_CM = 8
  HUG_CM = 22
  FAR_CM = 70
  PWM_MIN = 180
  PWM_MAX = 255
  VALID_MIN_CM = 8
  VALID_MAX_CM = 85
  NullLimit = 3
  MaxBursts = 3
  Raw <- RawReadings
  UserSpeed = 160
PROPERTIES UserKeepsTheRover
