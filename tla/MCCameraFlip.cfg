SPECIFICATION CameraSpec
CONSTANTS
  FrameBuffers = 2
  Blocks = 2
  Sizes = {"qvga", "vga"}
  Narrow = {"qvga"}
  kStreamFrameSize = "qvga"
  Duties = {0, 200, 300}
  CONFIG_LED_MAX_INTENSITY = 255
PROPERTIES KeepsOrientation
